---- MODULE Spec2Model ----
(***************************************************************************)
(* Model of the video-platform backend (src/src/controllers/               *)
(* videoController.ts, latest revision of the controller, lines 872-1683). *)
(*                                                                         *)
(* Spec      : the reaction toggle (incrementLikeDislikeCount) run by      *)
(*             several requests at once against the Firestore documents.   *)
(*             Every await of the handler is one atomic step of the store. *)
(* SpecFeed  : the discoverability feed (getVideoOptions): seeded shuffle  *)
(*             and pagination.                                             *)
(***************************************************************************)
EXTENDS Integers, Sequences, FiniteSets, TLC

\* ------------------------------------------------------------------ bounds
NumVideos == 2  \* document ids a reaction request may name
NumUsers  == 2  \* authenticated users
MaxReq    == 2  \* reaction requests in one run (each slot is one request)
NumFeedVideos == 2  \* documents the feed may list
MaxViewReq == 3  \* view requests in one run
MaxComments == 12  \* comments stored before the run
MaxPosts == 1  \* comments posted in one run
MaxInitCalls == 3  \* calls of initializeFirebase in one process

VideoIds == 1..NumVideos
FeedVideoIds == 1..NumFeedVideos
AllVideoIds == VideoIds \cup FeedVideoIds
Users    == 1..NumUsers
Reqs     == 1..MaxReq
ViewReqs == 1..MaxViewReq
InitCalls == 1..MaxInitCalls

\* The :type path parameter. "love" stands for any value that is neither.
ReactionTypes == {"like", "dislike"}
TypeParams    == ReactionTypes \cup {"love"}

\* currentReaction as read at line 1651: the stored type, or null.
Null == "null"

VARIABLES
    videos,     \* ids of the documents of collection "video"
    likes,      \* likes field of each video document
    dislikes,   \* dislikes field of each video document
    reactions,  \* documents of the "reactions" subcollections: [video, id, type]
    req,        \* the reaction requests: position in the handler and its locals
    rngTable,   \* seedrandom: the comparator results each seed string generates
    resp,       \* the last getVideoOptions request and its response
    scrolled,   \* the pages a client has concatenated since it asked for page 1
    uploader,   \* uploader field of each video document
    views,      \* views field of each video document
    upload,     \* the last uploadVideo request and what it was answered
    feed,       \* the getVideoOptions requests in progress and their locals
    comments,   \* documents of the "comments" subcollections: [video, id, timestamp]
    clock,      \* the time new Date() reads
    del,        \* the deleteVideo request: position in the handler and its locals
    vreq,       \* the incrementViewCount requests
    cresp,      \* the last getComments request and its response
    http,       \* the last request the router dispatched and what became of it
    apps,       \* admin.apps.length: the Firebase apps initialized in the process
    inits,      \* the calls of initializeFirebase: position and outcome of each
    proc,       \* the process: position of its start-up, app stack, exit code
    reply,      \* the last request that ran a handler: answers, operations, error
    url,        \* method and path of the last request the router matched
    cscroll     \* the comments a client has concatenated since the first page

reactionVars == <<likes, dislikes, reactions, req>>
feedVars == <<rngTable, resp, scrolled>>
uploadVars == <<uploader, upload>>
viewVars == <<views, vreq>>
commentVars == <<comments, clock, cresp>>
laterVars == <<feed, del>>
outerVars == <<apps, inits, proc, reply, url, cscroll>>
vars == <<videos, likes, dislikes, reactions, req, rngTable, resp, scrolled,
          uploader, views, upload, feed, comments, clock, del, vreq, cresp, http,
          apps, inits, proc, reply, url, cscroll>>

\* ------------------------------------------------------- the document store

\* videoRef.collection("reactions").doc(userId): the documents with that path.
ReactionDocs(v, u) == {d \in reactions : d.video = v /\ d.id = u}

\* reactionDoc.exists ? reactionDoc.data()?.type : null
CurrentReaction(v, u) ==
    IF ReactionDocs(v, u) = {} THEN Null
    ELSE (CHOOSE d \in ReactionDocs(v, u) : TRUE).type

\* reactionRef.delete(): the document at that path is gone.
DeleteReaction(v, u) == reactions \ ReactionDocs(v, u)

\* (variant) the record is added as a new document instead of replacing.
SetReactionAdd(v, u, t) ==
    reactions \cup {[video |-> v, id |-> u, type |-> t]}

\* reactionRef.set({ type }): the document at that path is replaced.
SetReaction(v, u, t) ==
    (reactions \ ReactionDocs(v, u)) \cup {[video |-> v, id |-> u, type |-> t]}

\* ------------------------------------------- incrementLikeDislikeCount locals

\* (variant) removing the held like does not decrement.
LikeDeltaNoClear(cur, t) ==
    IF cur = t
    THEN 0
    ELSE (IF cur # Null THEN (IF cur = "like" THEN -1 ELSE 0) ELSE 0)
         + (IF t = "like" THEN 1 ELSE 0)

\* likeDelta as computed at lines 1655-1672.
LikeDelta(cur, t) ==
    IF cur = t
    THEN (IF t = "like" THEN -1 ELSE 0)
    ELSE (IF cur # Null THEN (IF cur = "like" THEN -1 ELSE 0) ELSE 0)
         + (IF t = "like" THEN 1 ELSE 0)

\* (variant) a switch does not take back the previous dislike.
DislikeDeltaNoSwitch(cur, t) ==
    IF cur = t
    THEN (IF t = "dislike" THEN -1 ELSE 0)
    ELSE (IF t = "dislike" THEN 1 ELSE 0)

\* dislikeDelta as computed at lines 1655-1672.
DislikeDelta(cur, t) ==
    IF cur = t
    THEN (IF t = "dislike" THEN -1 ELSE 0)
    ELSE (IF cur # Null THEN (IF cur = "dislike" THEN -1 ELSE 0) ELSE 0)
         + (IF t = "dislike" THEN 1 ELSE 0)

\* (variant) the held type is written again instead of deleted.
WriteReactionDocAlwaysSet(v, u, cur, t) == SetReaction(v, u, t)

\* The record write of lines 1658-1663.
WriteReactionDoc(v, u, cur, t) ==
    IF cur = t THEN DeleteReaction(v, u) ELSE SetReaction(v, u, t)

IdleReq ==
    [pc |-> "idle", video |-> 0, user |-> 0, type |-> "", cur |-> "unread",
     likeDelta |-> 0, dislikeDelta |-> 0, status |-> 0]

\* ----------------------------------------------------- getVideoOptions locals

\* Query parameters are strings: <<>> is an absent or non-numeric one, <<n>>
\* the decimal string of n. The seed parameter is a string, "" when absent.
SeedParams  == {"", "a", "A"}
PageParams  == {<<>>} \cup {<<n>> : n \in 0..(NumFeedVideos + 1)}
LimitParams == {<<>>} \cup {<<n>> : n \in 0..2}
ExcludeParams == {0, 1}   \* 0: no excludeId

\* (req.query.seed as string)?.toLowerCase() || "", line 1075.
ToLowerCase(str) == IF str = "A" THEN "a" ELSE str

\* parseInt(req.query.x as string) || dflt, lines 1076-1077: NaN and 0 are falsy.
ParseIntOr(q, dflt) ==
    IF q = <<>> THEN dflt ELSE IF q[1] = 0 THEN dflt ELSE q[1]

DefaultPage == 1
DefaultLimit == 10

\* The comparator draws of one sort: draw i is TRUE when rng() - 0.5 < 0.
\* An array of n < 64 elements is one run: counting the run takes at most
\* n - 1 comparisons and each binary insertion at most as many as its index.
MaxDraws == (NumFeedVideos * (NumFeedVideos - 1)) \div 2 + 1
Streams == [1..MaxDraws -> BOOLEAN]

\* The non-empty lower-case seed strings, and the string Date.now() yields.
TableSeeds == {"a"}
NowSeed == "Date.now()"

\* (variant) the generator is seeded with the time whatever the seed is.
RngSeedFromClock(seed) == NowSeed

\* (variant) an empty seed falls back to a fixed string.
RngSeedFixedDefault(seed) == IF seed # "" THEN seed ELSE "a"

\* String(seed) || Date.now().toString(), line 1125.
RngSeed(seed) == IF seed # "" THEN seed ELSE NowSeed

\* seedrandom(s): a generator that is a function of the string s alone. The
\* time is different at every request, so is what its string generates.
StreamsOf(s) == IF s = NowSeed THEN Streams ELSE {rngTable[s]}

\* query.get(), lines 1081-1092: the documents in document-id order, without
\* the excluded one.
RECURSIVE Ascending(_)
Ascending(S) ==
    IF S = {} THEN <<>>
    ELSE LET m == CHOOSE x \in S : \A y \in S : x <= y
         IN <<m>> \o Ascending(S \ {m})

\* (variant) the query is not filtered.
SnapshotDocsUnfiltered(excludeId) == Ascending(videos)

SnapshotDocs(excludeId) ==
    Ascending(IF excludeId # 0 THEN {v \in videos : v # excludeId} ELSE videos)

\* Array.prototype.sort of line 1126 (an array shorter than 64 is sorted as one
\* run: the leading run is counted, reversed when descending, and the rest is
\* placed by binary insertion). Each comparison consumes one draw.
Reverse(a) == [i \in 1..Len(a) |-> a[Len(a) + 1 - i]]

\* <<length of the leading run, draws consumed>>; idx is the 1-based index
\* of the element compared with its predecessor.
RECURSIVE RunScan(_, _, _, _, _)
RunScan(st, desc, idx, n, used) ==
    IF idx > n THEN <<idx - 1, used>>
    ELSE IF desc # st[used + 1] THEN <<idx - 1, used + 1>>
    ELSE RunScan(st, desc, idx + 1, n, used + 1)

\* <<insertion point, draws consumed>> of the binary search in [left, right).
RECURSIVE BinarySearch(_, _, _, _)
BinarySearch(st, left, right, used) ==
    IF left >= right THEN <<left, used>>
    ELSE LET mid == left + (right - left) \div 2 IN
         IF st[used + 1]
         THEN BinarySearch(st, left, mid, used + 1)
         ELSE BinarySearch(st, mid + 1, right, used + 1)

\* Elements start..n-1 (0-based) are inserted into the sorted prefix.
RECURSIVE BinaryInsertionSort(_, _, _, _)
BinaryInsertionSort(a, st, start, used) ==
    IF start >= Len(a) THEN a
    ELSE LET found == BinarySearch(st, 0, start, used)
             left == found[1]
             moved == SubSeq(a, 1, left) \o <<a[start + 1]>>
                      \o SubSeq(a, left + 1, start) \o SubSeq(a, start + 2, Len(a))
         IN BinaryInsertionSort(moved, st, start + 1, found[2])

SortWith(a, st) ==
    IF Len(a) < 2 THEN a
    ELSE LET desc == st[1]
             run == RunScan(st, desc, 3, Len(a), 1)
             made == IF desc
                     THEN Reverse(SubSeq(a, 1, run[1])) \o SubSeq(a, run[1] + 1, Len(a))
                     ELSE a
         IN BinaryInsertionSort(made, st, run[1], run[2])

\* Array.prototype.slice(start, end) of lines 1130-1133.
RelativeIndex(i, len) ==
    IF i < 0 THEN (IF len + i < 0 THEN 0 ELSE len + i)
    ELSE (IF i > len THEN len ELSE i)

\* (variant) the element at index end is taken too.
SliceInclusive(a, start, end) ==
    SubSeq(a, RelativeIndex(start, Len(a)) + 1, RelativeIndex(end + 1, Len(a)))

Slice(a, start, end) ==
    SubSeq(a, RelativeIndex(start, Len(a)) + 1, RelativeIndex(end, Len(a)))

\* (variant) the first page starts one page in.
StartIndexFromPage(page, limit) == page * limit

\* startIndex, line 1129.
StartIndex(page, limit) == (page - 1) * limit

NoResponse ==
    [status |-> 0, seed |-> "", page |-> <<>>, limit |-> <<>>, excludeId |-> 0,
     rngSeed |-> "", docs |-> <<>>, videoOptions |-> <<>>, hasMore |-> FALSE]

\* The orderings line 1126 can produce with the generator of seed string s.
Shuffles(docs, s) == {SortWith(docs, st) : st \in StreamsOf(s)}

\* Lines 1075-1138: the response to one request, the sort having produced
\* randomizedVideos.
FeedResponseOf(seedQ, pageQ, limitQ, excludeQ, docs, randomizedVideos) ==
    LET seed == ToLowerCase(seedQ)
        page == ParseIntOr(pageQ, DefaultPage)
        limit == ParseIntOr(limitQ, DefaultLimit)
        startIndex == StartIndex(page, limit)
    IN [status |-> 200, seed |-> seedQ, page |-> pageQ, limit |-> limitQ,
        excludeId |-> excludeQ, rngSeed |-> RngSeed(seed), docs |-> docs,
        videoOptions |-> Slice(randomizedVideos, startIndex, startIndex + limit),
        hasMore |-> startIndex + limit < Len(randomizedVideos)]

FeedResponse(seedQ, pageQ, limitQ, excludeQ, randomizedVideos) ==
    FeedResponseOf(seedQ, pageQ, limitQ, excludeQ, SnapshotDocs(excludeQ),
                   randomizedVideos)

\* What a client that scrolls has concatenated: page 1 starts over, the page
\* after the last one of the same seed, limit, excludeId and candidates
\* continues, anything else is no scroll.
NoScroll == [valid |-> FALSE, items |-> <<>>]

Scroll(prev, got, sofar) ==
    IF got.page = <<1>>
    THEN [valid |-> TRUE, items |-> got.videoOptions]
    ELSE IF /\ sofar.valid /\ prev.status = 200 /\ prev.hasMore
            /\ prev.page # <<>> /\ got.page # <<>>
            /\ got.page[1] = prev.page[1] + 1
            /\ got.seed = prev.seed /\ got.limit = prev.limit
            /\ got.excludeId = prev.excludeId /\ got.docs = prev.docs
    THEN [valid |-> TRUE, items |-> sofar.items \o got.videoOptions]
    ELSE NoScroll

\* ---------------------------------------------------------- uploadVideo locals

\* The body fields the handler reads, "" standing for an absent one;
\* "text/plain" stands for any type outside both lists.
AllowedVideoTypes == {"video/mp4", "video/webm", "video/ogg"}
AllowedThumbnailTypes == {"image/jpeg", "image/png", "image/webp", "image/gif"}
Bodies ==
    [title : {"", "t"},
     videoType : {"", "video/mp4", "text/plain"},
     thumbnailType : {"", "image/png", "text/plain"}]
ValidBody == [title |-> "t", videoType |-> "video/mp4", thumbnailType |-> ""]

\* The three checks of lines 959-968.
MissingField(b) == b.title = "" \/ b.videoType = ""
BadVideoType(b) == b.videoType \notin AllowedVideoTypes
BadThumbnailType(b) ==
    b.thumbnailType # "" /\ b.thumbnailType \notin AllowedThumbnailTypes

\* How many of them answer 400. None returns: the handler goes on after the
\* first answer, and answering again throws (the headers are sent), which
\* takes it to the catch of line 1009.
Rejections(b) ==
    (IF MissingField(b) THEN 1 ELSE 0) + (IF BadVideoType(b) THEN 1 ELSE 0)
        + (IF BadThumbnailType(b) THEN 1 ELSE 0)
ReachesAdd(b) == Rejections(b) <= 1

NoUpload ==
    [title |-> "", videoType |-> "", thumbnailType |-> "", status |-> 0,
     videoId |-> 0, signedUrls |-> {}, error |-> FALSE]

\* Lines 958-1011: what the request is answered, the id of the document it
\* added (0: none), the paths it signed an upload URL for, and whether an
\* error went to next().
UploadResponse(b, v) ==
    [title |-> b.title, videoType |-> b.videoType, thumbnailType |-> b.thumbnailType,
     status |-> IF Rejections(b) > 0 THEN 400 ELSE 201,
     videoId |-> IF ReachesAdd(b) THEN v ELSE 0,
     signedUrls |-> IF ReachesAdd(b)
                    THEN {"videos"} \cup (IF b.thumbnailType # "" THEN {"thumbnails"} ELSE {})
                    ELSE {},
     error |-> Rejections(b) > 0]

\* ------------------------------------------------- locals of the other handlers

IdleFeed ==
    [pc |-> "idle", seed |-> "", docs |-> <<>>, videoOptions |-> <<>>]

IdleDel ==
    [pc |-> "idle", video |-> 0, user |-> 0, snapshot |-> {}, status |-> 0]

IdleView == [pc |-> "idle", video |-> 0, status |-> 0]

\* ------------------------------------------------------------ comment locals

CommentIds == 1..(MaxComments + MaxPosts)

\* new Date() never reads less than it has read.
MaxTime == MaxComments + 1

CommentsPageSize == 10
CommentsQueryLimit == 11

\* collection("video").doc(v).collection("comments")
CommentsOf(v) == {c \in comments : c.video = v}

\* orderBy("timestamp", "desc"): equal timestamps are ordered by document id
\* in the same direction.
Precedes(c, d) ==
    c.timestamp > d.timestamp \/ (c.timestamp = d.timestamp /\ c.id > d.id)

RECURSIVE Ordered(_)
Ordered(S) ==
    IF S = {} THEN <<>>
    ELSE LET first == CHOOSE c \in S : \A d \in S \ {c} : Precedes(c, d)
         IN <<first>> \o Ordered(S \ {first})

\* doc(lastCommentId).get(), lines 1509-1515: <<>> when the parameter is
\* absent (0) or names no document of the subcollection.
CursorDoc(v, lastCommentId) ==
    LET found == {c \in CommentsOf(v) : c.id = lastCommentId}
    IN IF lastCommentId = 0 \/ found = {} THEN <<>>
       ELSE <<CHOOSE c \in found : TRUE>>

\* (variant) the page starts at the cursor document.
StartAt(S, cursor) ==
    IF cursor = <<>> THEN S
    ELSE {c \in S : Precedes(cursor[1], c) \/ c = cursor[1]}

\* query.startAfter(lastCommentDoc), lines 1516-1518.
StartAfter(S, cursor) ==
    IF cursor = <<>> THEN S ELSE {c \in S : Precedes(cursor[1], c)}

\* (variant) the query is limited to the page size.
QueryDocsOfPageSize(v, cursor) ==
    Slice(Ordered(StartAfter(CommentsOf(v), cursor)), 0, CommentsPageSize)

\* query.get() with limit(11), lines 1506 and 1521.
QueryDocs(v, cursor) ==
    Slice(Ordered(StartAfter(CommentsOf(v), cursor)), 0, CommentsQueryLimit)

NoComments ==
    [pc |-> "idle", status |-> 0, video |-> 0, lastCommentId |-> 0,
     cursor |-> <<>>, comments |-> <<>>, hasMore |-> FALSE]

\* ------------------------------------------------------- start-up locals

\* A call of initializeFirebase: where it is, admin.apps.length when it was
\* made, and which branch of line 33 it took.
IdleInit == [pc |-> "idle", appsAtCall |-> 0, outcome |-> ""]

\* app.use of lines 36-39 (module load) and of line 44 (startServer).
BaseStack == <<"helmet", "cors", "express.json", "express.urlencoded">>

\* (variant) the error handler is mounted before the router.
RouterStackHandlerFirst == <<"errorHandler", "videoRouter">>

\* app.use("/video", videoRouter).use(errorLogger).use(errorHandler), line 44.
RouterStack == <<"videoRouter", "errorLogger", "errorHandler">>

\* The process when ./app has been imported and startServer not yet called.
LoadedProcess == [pc |-> "loaded", stack |-> BaseStack, exitCode |-> 0]

\* The process once the callback of app.listen has run.
ListeningProcess ==
    [pc |-> "listening", stack |-> BaseStack \o RouterStack, exitCode |-> 0]

\* ---------------------------------------------------- error middleware locals

\* What a handler passes to next(): whether it is an instance of Error and
\* its status property (<<>> without one). Library calls reject with values
\* of any of these shapes.
ErrorStatuses == {404, 503}
Errors == [isError : BOOLEAN, status : {<<>>} \cup {<<n>> : n \in ErrorStatuses}]

\* An Error without status property: ERR_HTTP_HEADERS_SENT, a TypeError, the
\* NOT_FOUND of a Firestore update.
PlainError == [isError |-> TRUE, status |-> <<>>]

DefaultErrorStatus == 500

\* (variant) the status property of anything thrown is used.
ErrorStatusOfAnyValue(e) ==
    IF e.status # <<>> THEN e.status[1] ELSE DefaultErrorStatus

\* errorHandler, lines 9-10 of the middleware: the status it answers with.
ErrorStatus(e) ==
    IF e.isError /\ e.status # <<>> THEN e.status[1] ELSE DefaultErrorStatus

\* The default handler of Express behind the last middleware: the status
\* property when it is a 4xx or 5xx number, else 500.
FinalStatus(e) ==
    IF e.status # <<>> /\ e.status[1] >= 400 /\ e.status[1] < 600
    THEN e.status[1] ELSE DefaultErrorStatus

\* The layers of an app stack that take an error (four parameters).
ErrorMiddleware == {"errorLogger", "errorHandler"}

\* Where next(error) called by layer number from goes: the first error
\* middleware behind it, or the default handler.
NextErrorLayer(stack, from) ==
    LET later == {i \in DOMAIN stack : i > from /\ stack[i] \in ErrorMiddleware}
    IN IF later = {} THEN "finalhandler"
       ELSE stack[CHOOSE i \in later : \A j \in later : i <= j]

LayerIndex(stack, name) ==
    LET at == {i \in DOMAIN stack : stack[i] = name}
    IN IF at = {} THEN 0 ELSE CHOOSE i \in at : \A j \in at : i <= j

\* A request in the hands of its handler and the middleware: the calls of
\* res.status(s).json()/end() made for it in order, each with its caller, the
\* store and storage operations the handler began after its first answer,
\* the value given to next() (<<>>: none), the layer that has it now, whether
\* errorLogger has logged it and whether the socket was destroyed.
NoReply ==
    [handler |-> "", calls |-> <<>>, ops |-> {}, error |-> <<>>, pc |-> "idle",
     logged |-> FALSE, closed |-> FALSE]

\* The handler has returned having made those calls; e went to next().
HandlerReply(handler, statuses, ops, e) ==
    [NoReply EXCEPT !.handler = handler,
                    !.calls = [i \in DOMAIN statuses |->
                                  [by |-> handler, status |-> statuses[i]]],
                    !.ops = ops, !.error = e,
                    !.pc = IF e = <<>> THEN "done"
                           ELSE NextErrorLayer(proc.stack,
                                               LayerIndex(proc.stack, "videoRouter"))]

\* uploadVideo, lines 958-1011, by the number of checks the body fails: none,
\* 201; one, 400 and then the add, the signed URLs and a 201 that throws; more,
\* a second 400 that throws. What is thrown goes to next() at line 1010.
UploadReply(b) ==
    CASE Rejections(b) = 0 -> HandlerReply("uploadVideo", <<201>>, {}, <<>>)
      [] Rejections(b) = 1 ->
             HandlerReply("uploadVideo", <<400, 201>>,
                          {"video.add", "getSignedUrl"}, <<PlainError>>)
      [] OTHER -> HandlerReply("uploadVideo", <<400, 400>>, {}, <<PlainError>>)

\* req.body.videoId of generateThumbnail: absent, the empty string, an id.
ThumbnailVideoIds == {<<>>, <<"">>, <<"v">>}

\* ------------------------------------------------------- router and middleware

\* (variant) the view route is mounted without the middleware.
RoutesViewUnguarded ==
    <<[method |-> "GET", path |-> "/", stack |-> <<"authenticateUser">>,
       handler |-> "getVideoOptions"],
      [method |-> "GET", path |-> "/user/:userId", stack |-> <<"authenticateUser">>,
       handler |-> "getUserVideoOptions"],
      [method |-> "GET", path |-> "/search", stack |-> <<"authenticateUser">>,
       handler |-> "searchVideoOptions"],
      [method |-> "POST", path |-> "/", stack |-> <<"authenticateUser">>,
       handler |-> "uploadVideo"],
      [method |-> "POST", path |-> "/thumbnail", stack |-> <<"authenticateUser">>,
       handler |-> "generateThumbnail"],
      [method |-> "GET", path |-> "/:videoId", stack |-> <<"authenticateUser">>,
       handler |-> "getVideoDetails"],
      [method |-> "DELETE", path |-> "/:videoId", stack |-> <<"authenticateUser">>,
       handler |-> "deleteVideo"],
      [method |-> "GET", path |-> "/:videoId/comments", stack |-> <<"authenticateUser">>,
       handler |-> "getComments"],
      [method |-> "POST", path |-> "/:videoId/comments", stack |-> <<"authenticateUser">>,
       handler |-> "postComment"],
      [method |-> "DELETE", path |-> "/:videoId/comments/:commentId",
       stack |-> <<"authenticateUser">>, handler |-> "deleteComment"],
      [method |-> "POST", path |-> "/:videoId/view", stack |-> <<>>,
       handler |-> "incrementViewCount"],
      [method |-> "POST", path |-> "/:videoId/:type", stack |-> <<"authenticateUser">>,
       handler |-> "incrementLikeDislikeCount"]>>

\* (variant) getVideoDetails and incrementLikeDislikeCount are declared ahead
\* of the routes with literal segments in their places.
RoutesParametersFirst ==
    <<[method |-> "GET", path |-> "/", stack |-> <<"authenticateUser">>,
       handler |-> "getVideoOptions"],
      [method |-> "GET", path |-> "/:videoId", stack |-> <<"authenticateUser">>,
       handler |-> "getVideoDetails"],
      [method |-> "GET", path |-> "/user/:userId", stack |-> <<"authenticateUser">>,
       handler |-> "getUserVideoOptions"],
      [method |-> "GET", path |-> "/search", stack |-> <<"authenticateUser">>,
       handler |-> "searchVideoOptions"],
      [method |-> "POST", path |-> "/", stack |-> <<"authenticateUser">>,
       handler |-> "uploadVideo"],
      [method |-> "POST", path |-> "/thumbnail", stack |-> <<"authenticateUser">>,
       handler |-> "generateThumbnail"],
      [method |-> "DELETE", path |-> "/:videoId", stack |-> <<"authenticateUser">>,
       handler |-> "deleteVideo"],
      [method |-> "GET", path |-> "/:videoId/comments", stack |-> <<"authenticateUser">>,
       handler |-> "getComments"],
      [method |-> "POST", path |-> "/:videoId/comments", stack |-> <<"authenticateUser">>,
       handler |-> "postComment"],
      [method |-> "DELETE", path |-> "/:videoId/comments/:commentId",
       stack |-> <<"authenticateUser">>, handler |-> "deleteComment"],
      [method |-> "POST", path |-> "/:videoId/:type", stack |-> <<"authenticateUser">>,
       handler |-> "incrementLikeDislikeCount"],
      [method |-> "POST", path |-> "/:videoId/view", stack |-> <<"authenticateUser">>,
       handler |-> "incrementViewCount"]>>

\* videoRouter, routes/videoRoutes.ts lines 66-78: each route with the
\* middleware in front of its handler.
Routes ==
    <<[method |-> "GET", path |-> "/", stack |-> <<"authenticateUser">>,
       handler |-> "getVideoOptions"],
      [method |-> "GET", path |-> "/user/:userId", stack |-> <<"authenticateUser">>,
       handler |-> "getUserVideoOptions"],
      [method |-> "GET", path |-> "/search", stack |-> <<"authenticateUser">>,
       handler |-> "searchVideoOptions"],
      [method |-> "POST", path |-> "/", stack |-> <<"authenticateUser">>,
       handler |-> "uploadVideo"],
      [method |-> "POST", path |-> "/thumbnail", stack |-> <<"authenticateUser">>,
       handler |-> "generateThumbnail"],
      [method |-> "GET", path |-> "/:videoId", stack |-> <<"authenticateUser">>,
       handler |-> "getVideoDetails"],
      [method |-> "DELETE", path |-> "/:videoId", stack |-> <<"authenticateUser">>,
       handler |-> "deleteVideo"],
      [method |-> "GET", path |-> "/:videoId/comments", stack |-> <<"authenticateUser">>,
       handler |-> "getComments"],
      [method |-> "POST", path |-> "/:videoId/comments", stack |-> <<"authenticateUser">>,
       handler |-> "postComment"],
      [method |-> "DELETE", path |-> "/:videoId/comments/:commentId",
       stack |-> <<"authenticateUser">>, handler |-> "deleteComment"],
      [method |-> "POST", path |-> "/:videoId/view", stack |-> <<"authenticateUser">>,
       handler |-> "incrementViewCount"],
      [method |-> "POST", path |-> "/:videoId/:type", stack |-> <<"authenticateUser">>,
       handler |-> "incrementLikeDislikeCount"]>>

\* The Authorization header: <<>> when absent, else <<scheme, token>>. Token
\* u is an ID token of user u; token 0 fails verification.
AuthHeaders ==
    {<<>>, <<"Basic", 1>>, <<"Bearer", 0>>} \cup {<<"Bearer", u>> : u \in Users}

\* auth().verifyIdToken(token): <<uid>>, or <<>> when it throws.
VerifyIdToken(token) == IF token \in Users THEN <<token>> ELSE <<>>

\* authenticateUser, middleware lines 19-39: the status it answers (0 when
\* it calls next()) and req.user.uid (0 when not set).
AuthenticateUser(h) ==
    IF h = <<>> \/ h[1] # "Bearer"
    THEN [status |-> 401, uid |-> 0]
    ELSE IF VerifyIdToken(h[2]) = <<>>
         THEN [status |-> 401, uid |-> 0]
         ELSE [status |-> 0, uid |-> VerifyIdToken(h[2])[1]]

\* The request after the middleware of its route: the first answer given
\* ends it, otherwise the handler is invoked.
RECURSIVE RunStack(_, _, _)
RunStack(stack, h, uid) ==
    IF stack = <<>> THEN [status |-> 0, uid |-> uid]
    ELSE IF Head(stack) = "authenticateUser" /\ AuthenticateUser(h).status # 0
         THEN AuthenticateUser(h)
         ELSE RunStack(Tail(stack), h,
                       IF Head(stack) = "authenticateUser"
                       THEN AuthenticateUser(h).uid ELSE uid)

\* The segments of a route path as path-to-regexp reads it; a segment that
\* begins with ":" is a parameter.
PatternSegments(path) ==
    CASE path = "/" -> <<>>
      [] path = "/user/:userId" -> <<"user", ":userId">>
      [] path = "/search" -> <<"search">>
      [] path = "/thumbnail" -> <<"thumbnail">>
      [] path = "/:videoId" -> <<":videoId">>
      [] path = "/:videoId/comments" -> <<":videoId", "comments">>
      [] path = "/:videoId/comments/:commentId" -> <<":videoId", "comments", ":commentId">>
      [] path = "/:videoId/view" -> <<":videoId", "view">>
      [] path = "/:videoId/:type" -> <<":videoId", ":type">>

IsParameter(seg) ==
    seg \in {":userId", ":videoId", ":commentId", ":type"}

\* The segments a request path below /video may consist of: the literals of
\* the routes, one of them in another case, and "v" for any other value.
MaxSegments == 3
PathSegments == {"search", "Search", "user", "view", "comments", "like", "v"}
Methods == {"GET", "POST", "DELETE"}
RequestPaths ==
    UNION {[1..n -> PathSegments] : n \in 0..MaxSegments}

\* Routers match without regard to case (caseSensitive is not set).
LowerSegment(seg) == IF seg = "Search" THEN "search" ELSE seg

\* Layer.match: the path has the segments of the pattern, a parameter
\* standing for any one segment.
MatchPath(pattern, path) ==
    /\ Len(pattern) = Len(path)
    /\ \A k \in 1..Len(pattern) :
           IsParameter(pattern[k]) \/ pattern[k] = LowerSegment(path[k])

\* Router.handle walks the stack from the index given and stops at the first
\* layer whose path and method match; 0 when it runs off the end.
RECURSIVE MatchFrom(_, _, _)
MatchFrom(i, method, path) ==
    IF i > Len(Routes) THEN 0
    ELSE IF /\ Routes[i].method = method
            /\ MatchPath(PatternSegments(Routes[i].path), path)
         THEN i
         ELSE MatchFrom(i + 1, method, path)

NoRequest == [route |-> 0, authorization |-> <<>>, status |-> 0, handler |-> ""]

\* No request has been matched against the routes yet.
NoUrl == [method |-> "", path |-> <<>>]

\* What a client that follows the cursor holds: the video, its comments when
\* the first page was asked for, the comments received so far, and whether
\* the requests so far are a scroll over unchanged comments.
NoCScroll == [valid |-> FALSE, video |-> 0, base |-> {}, items |-> <<>>]

\* Ids are opaque names (a uid, a generated document id): a run names them in
\* increasing order, the first unused id being as good as any other.
NamedUsers  == {req[q].user : q \in {x \in Reqs : req[x].pc # "idle"}}
NamedVideos ==
    videos \cup {req[q].video : q \in {x \in Reqs : req[x].pc # "idle"}}
           \cup {vreq[q].video : q \in {x \in ViewReqs : vreq[x].pc # "idle"}}
           \cup {c.video : c \in comments}
           \cup (IF del.pc # "idle" THEN {del.video} ELSE {})
NextUnused(id, named) == id \notin named /\ (id = 1 \/ (id - 1) \in named)

\* --------------------------------------------------------------------- Init
\* An empty store and no request made.
InitStore ==
    /\ videos = {}
    /\ likes = [v \in AllVideoIds |-> 0]
    /\ dislikes = [v \in AllVideoIds |-> 0]
    /\ uploader = [v \in AllVideoIds |-> 0]
    /\ views = [v \in AllVideoIds |-> 0]
    /\ reactions = {}
    /\ comments = {}
    /\ clock = 0
    /\ req = [r \in Reqs |-> IdleReq]
    /\ feed = [r \in Reqs |-> IdleFeed]
    /\ vreq = [r \in ViewReqs |-> IdleView]
    /\ del = IdleDel
    /\ upload = NoUpload
    /\ resp = NoResponse
    /\ scrolled = NoScroll
    /\ cresp = NoComments
    /\ http = NoRequest

\* The server is up: startServer has initialized Firebase and mounted the
\* router and the error middleware, and the process listens.
Started ==
    /\ apps = 1
    /\ inits = [k \in InitCalls |->
                   IF k = 1 THEN [pc |-> "done", appsAtCall |-> 0,
                                  outcome |-> "initialized"]
                   ELSE IdleInit]
    /\ proc = ListeningProcess
    /\ reply = NoReply
    /\ url = NoUrl
    /\ cscroll = NoCScroll

Init ==
    /\ InitStore
    /\ Started
    /\ rngTable = [s \in TableSeeds |-> [i \in 1..MaxDraws |-> TRUE]]

\* ------------------------------------------------------------------ actions

\* uploadVideo, lines 940-1012, for the user u of the token and the body b.
\* Unless a second 400 threw, line 980 adds a document with a fresh id v,
\* the uploader and zeroed counters: no return follows the 400 responses.
UploadVideo(v, u, b) ==
    /\ ReachesAdd(b) => NextUnused(v, NamedVideos)
    /\ IF ReachesAdd(b)
       THEN /\ videos' = videos \cup {v}
            /\ uploader' = [uploader EXCEPT ![v] = u]
            /\ views' = [views EXCEPT ![v] = 0]
            /\ likes' = [likes EXCEPT ![v] = 0]
            /\ dislikes' = [dislikes EXCEPT ![v] = 0]
       ELSE UNCHANGED <<videos, uploader, views, likes, dislikes>>
    /\ upload' = UploadResponse(b, v)
    /\ UNCHANGED <<reactions, req, feedVars, vreq, commentVars, laterVars>>

\* (variant) the type is not validated.
BeginReactionUnchecked(r, v, u, t) ==
    /\ req[r].pc = "idle"
    /\ \A q \in Reqs : q < r => req[q].pc # "idle"
    /\ v \in NamedVideos \/ NextUnused(v, NamedVideos)
    /\ u \in NamedUsers \/ NextUnused(u, NamedUsers)
    /\ req' = [req EXCEPT ![r] = [IdleReq EXCEPT !.pc = "read",
                        !.video = v, !.user = u, !.type = t,
                        !.cur = CurrentReaction(v, u)]]
    /\ UNCHANGED <<videos, likes, dislikes, reactions, feedVars,
                 uploadVars, viewVars, commentVars, laterVars>>

\* Lines 1631-1653: the request arrives; an invalid type is answered 400,
\* otherwise the handler awaits reactionRef.get() and keeps what it read.
\* (Express matches /:videoId/:type only with a non-empty videoId, so the
\* check of line 1632 never fails. Slots are taken in order: which slot a
\* request occupies is immaterial.)
BeginReaction(r, v, u, t) ==
    /\ req[r].pc = "idle"
    /\ \A q \in Reqs : q < r => req[q].pc # "idle"
    /\ v \in NamedVideos \/ NextUnused(v, NamedVideos)
    /\ u \in NamedUsers \/ NextUnused(u, NamedUsers)
    /\ IF t # "like" /\ t # "dislike"
       THEN req' = [req EXCEPT ![r] = [IdleReq EXCEPT !.pc = "rejected",
                        !.video = v, !.user = u, !.type = t, !.status = 400]]
       ELSE req' = [req EXCEPT ![r] = [IdleReq EXCEPT !.pc = "read",
                        !.video = v, !.user = u, !.type = t,
                        !.cur = CurrentReaction(v, u)]]
    /\ UNCHANGED <<videos, likes, dislikes, reactions, feedVars,
                 uploadVars, viewVars, commentVars, laterVars>>

\* (variant) the write is conditional on the record still being as read.
WriteReactionIfUnchanged(r) ==
    /\ req[r].pc = "read"
    /\ CurrentReaction(req[r].video, req[r].user) = req[r].cur
    /\ reactions' = WriteReactionDoc(req[r].video, req[r].user, req[r].cur, req[r].type)
    /\ req' = [req EXCEPT ![r].pc = "written",
                          ![r].likeDelta = LikeDelta(req[r].cur, req[r].type),
                          ![r].dislikeDelta = DislikeDelta(req[r].cur, req[r].type)]
    /\ UNCHANGED <<videos, likes, dislikes, feedVars,
                 uploadVars, viewVars, commentVars, laterVars>>

\* Lines 1655-1672: await reactionRef.delete() or set({type}); then the deltas.
WriteReaction(r) ==
    /\ req[r].pc = "read"
    /\ reactions' = WriteReactionDoc(req[r].video, req[r].user, req[r].cur, req[r].type)
    /\ req' = [req EXCEPT ![r].pc = "written",
                          ![r].likeDelta = LikeDelta(req[r].cur, req[r].type),
                          ![r].dislikeDelta = DislikeDelta(req[r].cur, req[r].type)]
    /\ UNCHANGED <<videos, likes, dislikes, feedVars,
                 uploadVars, viewVars, commentVars, laterVars>>

\* (variant) the two counters are updated by two separate writes.
UpdateCountersSplit(r) ==
    /\ req[r].video \in videos
    /\ \/ /\ req[r].pc = "written"
          /\ likes' = [likes EXCEPT ![req[r].video] = @ + req[r].likeDelta]
          /\ req' = [req EXCEPT ![r].pc = "likesUpdated"]
          /\ UNCHANGED dislikes
       \/ /\ req[r].pc = "likesUpdated"
          /\ dislikes' = [dislikes EXCEPT ![req[r].video] = @ + req[r].dislikeDelta]
          /\ req' = [req EXCEPT ![r].pc = "done", ![r].status = 200]
          /\ UNCHANGED likes
    /\ UNCHANGED <<videos, reactions, feedVars,
                 uploadVars, viewVars, commentVars, laterVars>>

\* (variant) the counters are written as values, not incremented in the store.
UpdateCountersAssign(r) ==
    /\ req[r].pc = "written"
    /\ IF req[r].video \in videos
       THEN /\ likes' = [likes EXCEPT ![req[r].video] = req[r].likeDelta]
            /\ dislikes' = [dislikes EXCEPT ![req[r].video] = req[r].dislikeDelta]
            /\ req' = [req EXCEPT ![r].pc = "done", ![r].status = 200]
       ELSE /\ UNCHANGED <<likes, dislikes>>
            /\ req' = [req EXCEPT ![r].pc = "failed", ![r].status = 500]
    /\ UNCHANGED <<videos, reactions, feedVars,
                 uploadVars, viewVars, commentVars, laterVars>>

\* Lines 1674-1682: await videoRef.update({likes: increment, dislikes: increment});
\* update() of a document that does not exist rejects, and the error goes to next().
UpdateCounters(r) ==
    /\ req[r].pc = "written"
    /\ IF req[r].video \in videos
       THEN /\ likes' = [likes EXCEPT ![req[r].video] = @ + req[r].likeDelta]
            /\ dislikes' = [dislikes EXCEPT ![req[r].video] = @ + req[r].dislikeDelta]
            /\ req' = [req EXCEPT ![r].pc = "done", ![r].status = 200]
       ELSE /\ UNCHANGED <<likes, dislikes>>
            /\ req' = [req EXCEPT ![r].pc = "failed", ![r].status = 500]
    /\ UNCHANGED <<videos, reactions, feedVars,
                 uploadVars, viewVars, commentVars, laterVars>>

\* The handlers leave http to the router that invokes them (Dispatch below);
\* the other specifications take their requests as routed and authenticated.
\* The toggle never reads the uploader: one uploader stands for all.
Next ==
    \/ \E v \in VideoIds : UploadVideo(v, 1, ValidBody) /\ UNCHANGED <<http, outerVars>>
    \/ \E r \in Reqs, v \in VideoIds, u \in Users, t \in TypeParams :
           BeginReaction(r, v, u, t) /\ UNCHANGED <<http, outerVars>>
    \/ \E r \in Reqs : WriteReaction(r) /\ UNCHANGED <<http, outerVars>>
    \/ \E r \in Reqs : UpdateCounters(r) /\ UNCHANGED <<http, outerVars>>

Spec == Init /\ [][Next]_vars

\* ------------------------------------- toggles, one at a time for each pair

\* A toggle of user u on video v is between its read and its counter update.
InProgressFor(v, u) ==
    \E q \in Reqs : /\ req[q].pc \in {"read", "written"}
                    /\ req[q].video = v /\ req[q].user = u

\* The clients send a user's next toggle on a video only when that user's
\* previous toggle on it has been answered; the handler is the same.
NextSerial ==
    \/ \E v \in VideoIds : UploadVideo(v, 1, ValidBody) /\ UNCHANGED <<http, outerVars>>
    \/ \E r \in Reqs, v \in VideoIds, u \in Users, t \in TypeParams :
           /\ ~InProgressFor(v, u)
           /\ BeginReaction(r, v, u, t) /\ UNCHANGED <<http, outerVars>>
    \/ \E r \in Reqs : WriteReaction(r) /\ UNCHANGED <<http, outerVars>>
    \/ \E r \in Reqs : UpdateCounters(r) /\ UNCHANGED <<http, outerVars>>

SpecSerial == Init /\ [][NextSerial]_vars

\* --------------------------------------------------------------- uploads alone

NextUpload ==
    \E v \in VideoIds, u \in Users, b \in Bodies : UploadVideo(v, u, b) /\ UNCHANGED <<http, outerVars>>

SpecUpload == Init /\ [][NextUpload]_vars

\* ------------------------------------------------------------------- views

\* Lines 1464-1471: the request arrives with a video id and issues the update.
BeginView(r, v) ==
    /\ vreq[r].pc = "idle"
    /\ \A q \in ViewReqs : q < r => vreq[q].pc # "idle"
    /\ v \in NamedVideos \/ NextUnused(v, NamedVideos)
    /\ vreq' = [vreq EXCEPT ![r] = [IdleView EXCEPT !.pc = "pending", !.video = v]]
    /\ UNCHANGED <<videos, reactionVars, feedVars, uploadVars, views, commentVars,
                   laterVars>>

\* (variant) the update writes the number 1 instead of an increment.
ApplyViewOverwrite(r) ==
    /\ vreq[r].pc = "pending"
    /\ IF vreq[r].video \in videos
       THEN /\ views' = [views EXCEPT ![vreq[r].video] = 1]
            /\ vreq' = [vreq EXCEPT ![r].pc = "done", ![r].status = 204]
       ELSE /\ UNCHANGED views
            /\ vreq' = [vreq EXCEPT ![r].pc = "failed", ![r].status = 500]
    /\ UNCHANGED <<videos, reactionVars, feedVars, uploadVars, commentVars, laterVars>>

\* (variant) the increment is applied to every video document.
ApplyViewAllVideos(r) ==
    /\ vreq[r].pc = "pending"
    /\ IF vreq[r].video \in videos
       THEN /\ views' = [w \in DOMAIN views |->
                            IF w \in videos THEN views[w] + 1 ELSE views[w]]
            /\ vreq' = [vreq EXCEPT ![r].pc = "done", ![r].status = 204]
       ELSE /\ UNCHANGED views
            /\ vreq' = [vreq EXCEPT ![r].pc = "failed", ![r].status = 500]
    /\ UNCHANGED <<videos, reactionVars, feedVars, uploadVars, commentVars, laterVars>>

\* Lines 1472-1478: the store applies FieldValue.increment(1) and the request
\* is answered 204; update() of a missing document rejects and the error
\* goes to next().
ApplyView(r) ==
    /\ vreq[r].pc = "pending"
    /\ IF vreq[r].video \in videos
       THEN /\ views' = [views EXCEPT ![vreq[r].video] = @ + 1]
            /\ vreq' = [vreq EXCEPT ![r].pc = "done", ![r].status = 204]
       ELSE /\ UNCHANGED views
            /\ vreq' = [vreq EXCEPT ![r].pc = "failed", ![r].status = 500]
    /\ UNCHANGED <<videos, reactionVars, feedVars, uploadVars, commentVars, laterVars>>

NextViews ==
    \/ \E v \in VideoIds : UploadVideo(v, 1, ValidBody) /\ UNCHANGED <<http, outerVars>>
    \/ \E r \in ViewReqs, v \in VideoIds : BeginView(r, v) /\ UNCHANGED <<http, outerVars>>
    \/ \E r \in ViewReqs : ApplyView(r) /\ UNCHANGED <<http, outerVars>>

SpecViews == Init /\ [][NextViews]_vars

\* ---------------------------------------------------------------- comments

\* The comments stored when the run starts: n comments on video 1 whose
\* timestamps follow the ids, run against them, or tie in groups.
TimestampPatterns ==
    {[i \in 1..MaxComments |-> i],
     [i \in 1..MaxComments |-> MaxComments + 1 - i],
     [i \in 1..MaxComments |-> (i + 1) \div 2],
     [i \in 1..MaxComments |-> i % 3]}

InitComments ==
    /\ videos = {1}
    /\ likes = [v \in AllVideoIds |-> 0]
    /\ dislikes = [v \in AllVideoIds |-> 0]
    /\ uploader = [v \in AllVideoIds |-> IF v = 1 THEN 1 ELSE 0]
    /\ views = [v \in AllVideoIds |-> 0]
    /\ reactions = {}
    /\ \E n \in 0..MaxComments, ts \in TimestampPatterns :
           comments = {[video |-> 1, id |-> i, timestamp |-> ts[i]] : i \in 1..n}
    /\ clock = MaxComments
    /\ req = [r \in Reqs |-> IdleReq]
    /\ feed = [r \in Reqs |-> IdleFeed]
    /\ vreq = [r \in ViewReqs |-> IdleView]
    /\ del = IdleDel
    /\ upload = NoUpload
    /\ rngTable = [s \in TableSeeds |-> [i \in 1..MaxDraws |-> TRUE]]
    /\ resp = NoResponse
    /\ scrolled = NoScroll
    /\ cresp = NoComments
    /\ http = NoRequest
    /\ Started

\* Time passes.
Tick ==
    /\ clock < MaxTime
    /\ clock' = clock + 1
    /\ UNCHANGED <<videos, reactionVars, feedVars, uploadVars, viewVars, comments,
                   cresp, laterVars>>

\* postComment, lines 1549-1588, with a comment and a commenterId in the
\* body (without one of them the request is answered 400 and nothing
\* changes): a document with a fresh id c and the time read at line 1562 is
\* added under video v, whether or not a video document v exists.
PostComment(v, c) ==
    /\ c > MaxComments
    /\ NextUnused(c, (1..MaxComments) \cup {d.id : d \in comments})
    /\ comments' = comments \cup {[video |-> v, id |-> c, timestamp |-> clock]}
    /\ UNCHANGED <<videos, reactionVars, feedVars, uploadVars, viewVars, clock,
                   cresp, laterVars>>

\* getComments, lines 1492-1519: the request arrives and, given a
\* lastCommentId, awaits that document.
BeginGetComments(v, lastCommentId) ==
    /\ cresp.pc # "query"
    /\ cresp' = [NoComments EXCEPT !.pc = "query", !.video = v,
                     !.lastCommentId = lastCommentId,
                     !.cursor = CursorDoc(v, lastCommentId)]
    /\ UNCHANGED <<videos, reactionVars, feedVars, uploadVars, viewVars, comments,
                   clock, laterVars>>

\* Lines 1521-1537: the query runs and the first ten documents are returned.
RespondGetComments ==
    /\ cresp.pc = "query"
    /\ LET docs == QueryDocs(cresp.video, cresp.cursor) IN
       cresp' = [cresp EXCEPT !.pc = "done", !.status = 200,
                    !.comments = Slice(docs, 0, CommentsPageSize),
                    !.hasMore = Len(docs) > CommentsPageSize]
    /\ UNCHANGED <<videos, reactionVars, feedVars, uploadVars, viewVars, comments,
                   clock, laterVars>>

NextComments ==
    \/ Tick /\ UNCHANGED <<http, outerVars>>
    \/ \E v \in VideoIds, c \in CommentIds : PostComment(v, c) /\ UNCHANGED <<http, outerVars>>
    \/ \E v \in VideoIds, lastCommentId \in {0} \cup CommentIds :
           BeginGetComments(v, lastCommentId) /\ UNCHANGED <<http, outerVars>>
    \/ RespondGetComments /\ UNCHANGED <<http, outerVars>>

SpecComments == InitComments /\ [][NextComments]_vars

\* ------------------------------------------------- toggles and views together

\* Toggles and one view request, interleaved at every await.
NextCounters ==
    \/ \E v \in VideoIds : UploadVideo(v, 1, ValidBody) /\ UNCHANGED <<http, outerVars>>
    \/ \E r \in Reqs, v \in VideoIds, u \in Users, t \in ReactionTypes :
           BeginReaction(r, v, u, t) /\ UNCHANGED <<http, outerVars>>
    \/ \E r \in Reqs : WriteReaction(r) /\ UNCHANGED <<http, outerVars>>
    \/ \E r \in Reqs : UpdateCounters(r) /\ UNCHANGED <<http, outerVars>>
    \/ \E v \in VideoIds : BeginView(1, v) /\ UNCHANGED <<http, outerVars>>
    \/ ApplyView(1) /\ UNCHANGED <<http, outerVars>>

SpecCounters == Init /\ [][NextCounters]_vars

\* ---------------------------------------------------------------- deleteVideo

\* collection("video").doc(v).collection("reactions")
ReactionsOf(v) == {d \in reactions : d.video = v}

\* (variant) any authenticated user may delete the video.
BeginDeleteByAnyUser(v, u) ==
    /\ del.pc = "idle"
    /\ v \in NamedVideos \/ NextUnused(v, NamedVideos)
    /\ del' = [IdleDel EXCEPT !.video = v, !.user = u,
                   !.pc = IF v \notin videos THEN "notFound" ELSE "checked",
                   !.status = IF v \notin videos THEN 404 ELSE 0]
    /\ UNCHANGED <<videos, reactionVars, feedVars, uploadVars, viewVars, commentVars,
                   feed>>

\* Lines 1389-1409: the request of user u arrives; the handler awaits the
\* video document and answers 404 without it, 403 when u is not its uploader.
BeginDelete(v, u) ==
    /\ del.pc = "idle"
    /\ v \in NamedVideos \/ NextUnused(v, NamedVideos)
    /\ del' = [IdleDel EXCEPT !.video = v, !.user = u,
                   !.pc = IF v \notin videos THEN "notFound"
                          ELSE IF uploader[v] # u THEN "forbidden" ELSE "checked",
                   !.status = IF v \notin videos THEN 404
                              ELSE IF uploader[v] # u THEN 403 ELSE 0]
    /\ UNCHANGED <<videos, reactionVars, feedVars, uploadVars, viewVars, commentVars,
                   feed>>

\* Lines 1412-1416: the comments of the video as they are now.
SnapshotComments ==
    /\ del.pc = "checked"
    /\ del' = [del EXCEPT !.pc = "commentsRead", !.snapshot = CommentsOf(del.video)]
    /\ UNCHANGED <<videos, reactionVars, feedVars, uploadVars, viewVars, commentVars,
                   feed>>

\* Line 1417: every document of the snapshot is deleted.
DeleteComments ==
    /\ del.pc = "commentsRead"
    /\ comments' = comments \ del.snapshot
    /\ del' = [del EXCEPT !.pc = "commentsDeleted", !.snapshot = {}]
    /\ UNCHANGED <<videos, reactionVars, feedVars, uploadVars, viewVars, clock, cresp,
                   feed>>

\* Lines 1420-1424: the reaction records of the video as they are now.
SnapshotReactions ==
    /\ del.pc = "commentsDeleted"
    /\ del' = [del EXCEPT !.pc = "reactionsRead", !.snapshot = ReactionsOf(del.video)]
    /\ UNCHANGED <<videos, reactionVars, feedVars, uploadVars, viewVars, commentVars,
                   feed>>

\* Line 1425: the document at the path of every record of the snapshot is
\* deleted, whatever it holds by now.
DeleteReactions ==
    /\ del.pc = "reactionsRead"
    /\ reactions' = {d \in reactions :
                         \A x \in del.snapshot : ~(d.video = x.video /\ d.id = x.id)}
    /\ del' = [del EXCEPT !.pc = "reactionsDeleted", !.snapshot = {}]
    /\ UNCHANGED <<videos, likes, dislikes, req, feedVars, uploadVars, viewVars,
                   commentVars, feed>>

\* Line 1428: the video document is deleted, its fields with it.
DeleteVideoDoc ==
    /\ del.pc = "reactionsDeleted"
    /\ videos' = videos \ {del.video}
    /\ likes' = [likes EXCEPT ![del.video] = 0]
    /\ dislikes' = [dislikes EXCEPT ![del.video] = 0]
    /\ views' = [views EXCEPT ![del.video] = 0]
    /\ uploader' = [uploader EXCEPT ![del.video] = 0]
    /\ del' = [del EXCEPT !.pc = "docDeleted"]
    /\ UNCHANGED <<reactions, req, feedVars, upload, vreq, commentVars, feed>>

\* Lines 1431-1447: the stored files are deleted (failures are ignored by
\* allSettled) and the request is answered 204.
FinishDelete ==
    /\ del.pc = "docDeleted"
    /\ del' = [del EXCEPT !.pc = "done", !.status = 204]
    /\ UNCHANGED <<videos, reactionVars, feedVars, uploadVars, viewVars, commentVars,
                   feed>>

\* One delete request, with one comment post and one toggle that may run
\* before, during or after it.
NextDelete ==
    \/ \E v \in VideoIds : UploadVideo(v, 1, ValidBody) /\ UNCHANGED <<http, outerVars>>
    \/ \E v \in VideoIds : PostComment(v, MaxComments + 1) /\ UNCHANGED <<http, outerVars>>
    \/ \E v \in VideoIds, u \in Users, t \in ReactionTypes :
           BeginReaction(1, v, u, t) /\ UNCHANGED <<http, outerVars>>
    \/ WriteReaction(1) /\ UNCHANGED <<http, outerVars>>
    \/ UpdateCounters(1) /\ UNCHANGED <<http, outerVars>>
    \/ \E v \in VideoIds, u \in Users : BeginDelete(v, u) /\ UNCHANGED <<http, outerVars>>
    \/ SnapshotComments /\ UNCHANGED <<http, outerVars>>
    \/ DeleteComments /\ UNCHANGED <<http, outerVars>>
    \/ SnapshotReactions /\ UNCHANGED <<http, outerVars>>
    \/ DeleteReactions /\ UNCHANGED <<http, outerVars>>
    \/ DeleteVideoDoc /\ UNCHANGED <<http, outerVars>>
    \/ FinishDelete /\ UNCHANGED <<http, outerVars>>

SpecDelete == Init /\ [][NextDelete]_vars

\* ------------------------------------------------------------------ routing

\* deleteComment, lines 1596-1618: the document at that path is deleted.
DeleteComment(v, c) ==
    /\ comments' = {d \in comments : ~(d.video = v /\ d.id = c)}
    /\ UNCHANGED <<videos, reactionVars, feedVars, uploadVars, viewVars, clock,
                   cresp, laterVars>>

\* The handler is invoked for the user of the token. A handler whose first
\* await writes the store is run here up to that write, with the parameters
\* of the request (a run has one upload, one comment and one view
\* request); incrementLikeDislikeCount, deleteVideo and the handlers
\* that only read begin by reading the store: their invocation changes
\* nothing yet, and their steps are the actions above.
Invoke(handler, uid) ==
    \/ handler = "uploadVideo" /\ UploadVideo(1, uid, ValidBody)
    \/ handler = "postComment" /\ \E v \in VideoIds : PostComment(v, MaxComments + 1)
    \/ handler = "deleteComment"
           /\ \E v \in VideoIds : DeleteComment(v, MaxComments + 1)
    \/ handler = "incrementViewCount" /\ \E v \in VideoIds : BeginView(1, v)
    \/ handler \in {"getVideoOptions", "getUserVideoOptions", "searchVideoOptions",
                     "generateThumbnail", "getVideoDetails", "getComments",
                     "incrementLikeDislikeCount", "deleteVideo"}
           /\ UNCHANGED <<videos, reactionVars, feedVars, uploadVars, viewVars,
                          commentVars, laterVars>>

\* A request that matches route i arrives with Authorization header h.
Dispatch(i, h) ==
    LET passed == RunStack(Routes[i].stack, h, 0) IN
    IF passed.status # 0
    THEN /\ http' = [route |-> i, authorization |-> h, status |-> passed.status,
                     handler |-> ""]
         /\ UNCHANGED <<videos, reactionVars, feedVars, uploadVars, viewVars,
                        commentVars, laterVars>>
    ELSE /\ http' = [route |-> i, authorization |-> h, status |-> 0,
                     handler |-> Routes[i].handler]
         /\ Invoke(Routes[i].handler, passed.uid)

NextRoute ==
    \/ \E i \in DOMAIN Routes, h \in AuthHeaders : Dispatch(i, h) /\ UNCHANGED outerVars
    \/ ApplyView(1) /\ UNCHANGED <<http, outerVars>>

SpecRoute == Init /\ [][NextRoute]_vars

\* -------------------------------------------------- following the cursor

\* The id a client passes as lastCommentId: that of the last comment received.
LastCommentId(page) == page[Len(page)].id

\* A client asks for the first page of video 1 and then, while hasMore is
\* true, for the page after the last comment it received, concatenating what
\* it receives. The comment it is about to name may be deleted and a comment
\* may be posted meanwhile; the scroll then is no longer one over unchanged
\* comments.
NextScroll ==
    \/ /\ BeginGetComments(1, 0)
       /\ cscroll' = [valid |-> TRUE, video |-> 1, base |-> CommentsOf(1),
                      items |-> <<>>]
       /\ UNCHANGED <<http, apps, inits, proc, reply, url>>
    \/ /\ cresp.pc = "done" /\ cresp.hasMore
       /\ BeginGetComments(cresp.video, LastCommentId(cresp.comments))
       /\ UNCHANGED <<http, outerVars>>
    \/ /\ RespondGetComments
       /\ cscroll' = [cscroll EXCEPT
                         !.items = IF cscroll.valid THEN @ \o cresp'.comments ELSE @]
       /\ UNCHANGED <<http, apps, inits, proc, reply, url>>
    \/ /\ cresp.pc = "done" /\ cresp.comments # <<>>
       /\ cresp.comments[Len(cresp.comments)] \in comments
       /\ DeleteComment(cresp.video, LastCommentId(cresp.comments))
       /\ cscroll' = [cscroll EXCEPT !.valid = FALSE]
       /\ UNCHANGED <<http, apps, inits, proc, reply, url>>
    \/ /\ PostComment(1, MaxComments + 1)
       /\ cscroll' = [cscroll EXCEPT !.valid = FALSE]
       /\ UNCHANGED <<http, apps, inits, proc, reply, url>>

SpecScroll == InitComments /\ [][NextScroll]_vars

\* ----------------------------------------------------------------- matching

\* A request with the given method and path below /video arrives. The first
\* route that matches runs its middleware and handler, and answers; a
\* request no route matches leaves the router and is answered 404 by
\* Express.
Receive(method, path, h) ==
    /\ url' = [method |-> method, path |-> path]
    /\ IF MatchFrom(1, method, path) = 0
       THEN /\ http' = [route |-> 0, authorization |-> h, status |-> 404,
                        handler |-> ""]
            /\ UNCHANGED <<videos, reactionVars, feedVars, uploadVars, viewVars,
                           commentVars, laterVars>>
       ELSE Dispatch(MatchFrom(1, method, path), h)

\* Matching reads nothing but the request: every request is tried as the
\* first one of a run.
NextMatch ==
    \/ \E method \in Methods, path \in RequestPaths, h \in {<<>>, <<"Bearer", 1>>} :
           /\ url = NoUrl
           /\ Receive(method, path, h) /\ UNCHANGED <<apps, inits, proc, reply, cscroll>>
    \/ ApplyView(1) /\ UNCHANGED <<http, outerVars>>

SpecMatch == Init /\ [][NextMatch]_vars

\* ------------------------------------------------------------------ start-up

\* The process at "node index": ./app is loaded, nothing is initialized.
InitBoot ==
    /\ InitStore
    /\ rngTable = [s \in TableSeeds |-> [i \in 1..MaxDraws |-> TRUE]]
    /\ apps = 0
    /\ inits = [k \in InitCalls |-> IdleInit]
    /\ proc = LoadedProcess
    /\ reply = NoReply
    /\ url = NoUrl
    /\ cscroll = NoCScroll

\* initializeFirebase, lines 15-23: a call other than startServer's begins
\* and awaits the two secrets. (Calls take the slots in order.)
BeginInit(k) ==
    /\ proc.pc # "exited"
    /\ k > 1 /\ inits[k].pc = "idle"
    /\ \A j \in InitCalls : (1 < j /\ j < k) => inits[j].pc # "idle"
    /\ inits' = [inits EXCEPT ![k] = [IdleInit EXCEPT !.pc = "awaiting",
                                                      !.appsAtCall = apps]]
    /\ UNCHANGED <<apps, proc>>
    /\ UNCHANGED <<videos, reactionVars, feedVars, uploadVars, viewVars,
                   commentVars, laterVars>>

\* (variant) whether an app exists is decided before the secrets are awaited.
ResolveSecretsCheckedAtCall(k, valid) ==
    /\ proc.pc # "exited"
    /\ inits[k].pc = "awaiting"
    /\ IF inits[k].appsAtCall = 0
       THEN IF valid
            THEN /\ apps' = apps + 1
                 /\ inits' = [inits EXCEPT ![k].pc = "done",
                                           ![k].outcome = "initialized"]
            ELSE /\ apps' = apps
                 /\ inits' = [inits EXCEPT ![k].pc = "failed"]
       ELSE /\ apps' = apps
            /\ inits' = [inits EXCEPT ![k].pc = "done", ![k].outcome = "already"]
    /\ UNCHANGED proc
    /\ UNCHANGED <<videos, reactionVars, feedVars, uploadVars, viewVars,
                   commentVars, laterVars>>

\* Lines 25-42, run without suspension once the secrets have arrived: when
\* admin.apps is empty, initializeApp with the certificate of the secrets
\* (cert throws on an unusable key, and lines 43-46 rethrow); otherwise
\* nothing is initialized.
ResolveSecrets(k, valid) ==
    /\ proc.pc # "exited"
    /\ inits[k].pc = "awaiting"
    /\ IF apps = 0
       THEN IF valid
            THEN /\ apps' = apps + 1
                 /\ inits' = [inits EXCEPT ![k].pc = "done",
                                           ![k].outcome = "initialized"]
            ELSE /\ apps' = apps
                 /\ inits' = [inits EXCEPT ![k].pc = "failed"]
       ELSE /\ apps' = apps
            /\ inits' = [inits EXCEPT ![k].pc = "done", ![k].outcome = "already"]
    /\ UNCHANGED proc
    /\ UNCHANGED <<videos, reactionVars, feedVars, uploadVars, viewVars,
                   commentVars, laterVars>>

\* Lines 20-23 and 43-46: a secret cannot be read and the catch rethrows.
RejectSecrets(k) ==
    /\ proc.pc # "exited"
    /\ inits[k].pc = "awaiting"
    /\ inits' = [inits EXCEPT ![k].pc = "failed"]
    /\ UNCHANGED <<apps, proc>>
    /\ UNCHANGED <<videos, reactionVars, feedVars, uploadVars, viewVars,
                   commentVars, laterVars>>

\* startServer, line 43: it calls initializeFirebase (call 1) and awaits it.
StartServer ==
    /\ proc.pc = "loaded"
    /\ proc' = [proc EXCEPT !.pc = "initializing"]
    /\ inits' = [inits EXCEPT ![1] = [IdleInit EXCEPT !.pc = "awaiting",
                                                      !.appsAtCall = apps]]
    /\ UNCHANGED apps
    /\ UNCHANGED <<videos, reactionVars, feedVars, uploadVars, viewVars,
                   commentVars, laterVars>>

\* Line 44: the call has returned; the router and the error middleware are
\* mounted and startServer resolves.
MountRoutes ==
    /\ proc.pc = "initializing" /\ inits[1].pc = "done"
    /\ proc' = [proc EXCEPT !.pc = "started", !.stack = @ \o RouterStack]
    /\ UNCHANGED <<apps, inits>>
    /\ UNCHANGED <<videos, reactionVars, feedVars, uploadVars, viewVars,
                   commentVars, laterVars>>

\* Lines 45-47: the call has thrown; process.exit(1).
ExitOnFailure ==
    /\ proc.pc = "initializing" /\ inits[1].pc = "failed"
    /\ proc' = [proc EXCEPT !.pc = "exited", !.exitCode = 1]
    /\ UNCHANGED <<apps, inits>>
    /\ UNCHANGED <<videos, reactionVars, feedVars, uploadVars, viewVars,
                   commentVars, laterVars>>

\* (variant) app.listen is called beside startServer, not in its then().
ListenWithoutWaiting ==
    /\ proc.pc \in {"loaded", "initializing", "started"}
    /\ proc' = [proc EXCEPT !.pc = "listening"]
    /\ UNCHANGED <<apps, inits>>
    /\ UNCHANGED <<videos, reactionVars, feedVars, uploadVars, viewVars,
                   commentVars, laterVars>>

\* The then() of startServer, lines 5-9 of the entry point: app.listen.
Listen ==
    /\ proc.pc = "started"
    /\ proc' = [proc EXCEPT !.pc = "listening"]
    /\ UNCHANGED <<apps, inits>>
    /\ UNCHANGED <<videos, reactionVars, feedVars, uploadVars, viewVars,
                   commentVars, laterVars>>

NextBoot ==
    \/ StartServer /\ UNCHANGED <<http, reply, url, cscroll>>
    \/ \E k \in InitCalls : BeginInit(k) /\ UNCHANGED <<http, reply, url, cscroll>>
    \/ \E k \in InitCalls, valid \in BOOLEAN :
           ResolveSecrets(k, valid) /\ UNCHANGED <<http, reply, url, cscroll>>
    \/ \E k \in InitCalls : RejectSecrets(k) /\ UNCHANGED <<http, reply, url, cscroll>>
    \/ MountRoutes /\ UNCHANGED <<http, reply, url, cscroll>>
    \/ ExitOnFailure /\ UNCHANGED <<http, reply, url, cscroll>>
    \/ Listen /\ UNCHANGED <<http, reply, url, cscroll>>

SpecBoot == InitBoot /\ [][NextBoot]_vars

\* ------------------------------------------------------- the error middleware

\* No earlier request is still with the error middleware (every request has
\* its own response object: one is followed at a time).
Served == proc.pc = "listening" /\ reply.pc \in {"idle", "done"}

\* uploadVideo run to its end, with the calls it made on the response.
ServeUpload(v, u, b) ==
    /\ Served
    /\ UploadVideo(v, u, b)
    /\ reply' = UploadReply(b)

\* generateThumbnail, lines 1020-1061; e is what a failing step threw (<<>>:
\* none failed). Without a videoId line 1028 answers 400 and the handler
\* goes on. An absent id makes path.join throw outside the try: the promise
\* of the handler rejects, which the router forwards or not by its version.
\* The empty id passes path.join and line 1039 asks the bucket for
\* "videos/", which fails. With an id the steps succeed and line 1050
\* answers 204, or one fails and line 1052 forwards what it threw.
GenerateThumbnail(videoId, e) ==
    /\ Served
    /\ videoId = <<>> => e \in {<<>>, <<PlainError>>}
    /\ videoId = <<"">> => e # <<>>
    /\ reply' = CASE videoId = <<>> ->
                        HandlerReply("generateThumbnail", <<400>>, {}, e)
                   [] videoId = <<"">> ->
                        HandlerReply("generateThumbnail", <<400>>, {"download"}, e)
                   [] OTHER ->
                        IF e = <<>>
                        THEN HandlerReply("generateThumbnail", <<204>>, {}, <<>>)
                        ELSE HandlerReply("generateThumbnail", <<>>, {}, e)
    /\ UNCHANGED <<videos, reactionVars, feedVars, uploadVars, viewVars,
                   commentVars, laterVars>>

\* incrementViewCount answered 204, or the rejection of its update forwarded
\* at line 1477.
ServeView ==
    /\ Served
    /\ ApplyView(1)
    /\ reply' = IF vreq'[1].pc = "failed"
                THEN HandlerReply("incrementViewCount", <<>>, {}, <<PlainError>>)
                ELSE HandlerReply("incrementViewCount", <<204>>, {}, <<>>)

\* errorLogger, middleware/errorLogger.ts lines 3-25: it writes to the
\* console and calls next(error) with the error it was given.
ErrorLogger ==
    /\ reply.pc = "errorLogger"
    /\ reply' = [reply EXCEPT !.logged = TRUE,
                     !.pc = NextErrorLayer(proc.stack,
                                           LayerIndex(proc.stack, "errorLogger"))]
    /\ UNCHANGED <<videos, reactionVars, feedVars, uploadVars, viewVars,
                   commentVars, laterVars>>

\* errorHandler, lines 3-17: res.status(status).json(...). On a response
\* that was sent already json() throws, and what it throws goes on to the
\* layer behind.
ErrorHandler ==
    /\ reply.pc = "errorHandler"
    /\ reply' = [reply EXCEPT
                     !.calls = Append(@, [by |-> "errorHandler",
                                          status |-> ErrorStatus(reply.error[1])]),
                     !.error = IF reply.calls = <<>> THEN @ ELSE <<PlainError>>,
                     !.pc = IF reply.calls = <<>> THEN "done"
                            ELSE NextErrorLayer(proc.stack,
                                     LayerIndex(proc.stack, "errorHandler"))]
    /\ UNCHANGED <<videos, reactionVars, feedVars, uploadVars, viewVars,
                   commentVars, laterVars>>

\* The default handler of Express: it answers when nothing was sent, and
\* destroys the socket otherwise.
FinalHandler ==
    /\ reply.pc = "finalhandler"
    /\ reply' = IF reply.calls = <<>>
                THEN [reply EXCEPT
                         !.calls = <<[by |-> "finalhandler",
                                      status |-> FinalStatus(reply.error[1])]>>,
                         !.pc = "done"]
                ELSE [reply EXCEPT !.closed = TRUE, !.pc = "done"]
    /\ UNCHANGED <<videos, reactionVars, feedVars, uploadVars, viewVars,
                   commentVars, laterVars>>

\* Requests on the upload, thumbnail and view routes, one followed at a
\* time through the handler and the error middleware.
NextError ==
    \/ \E v \in VideoIds, b \in Bodies :
           ServeUpload(v, 1, b) /\ UNCHANGED <<http, apps, inits, proc, url, cscroll>>
    \/ \E videoId \in ThumbnailVideoIds, e \in {<<>>} \cup {<<x>> : x \in Errors} :
           GenerateThumbnail(videoId, e)
               /\ UNCHANGED <<http, apps, inits, proc, url, cscroll>>
    \/ \E v \in VideoIds : BeginView(1, v) /\ UNCHANGED <<http, outerVars>>
    \/ ServeView /\ UNCHANGED <<http, apps, inits, proc, url, cscroll>>
    \/ ErrorLogger /\ UNCHANGED <<http, apps, inits, proc, url, cscroll>>
    \/ ErrorHandler /\ UNCHANGED <<http, apps, inits, proc, url, cscroll>>
    \/ FinalHandler /\ UNCHANGED <<http, apps, inits, proc, url, cscroll>>

SpecError == Init /\ [][NextError]_vars

\* ------------------------------------------------------------ the feed alone

\* seedrandom may be any function of the seed string.
InitFeed ==
    /\ InitStore
    /\ Started
    /\ rngTable \in [TableSeeds -> Streams]

\* getVideoOptions, lines 1070-1142. Everything after query.get() depends on
\* the snapshot alone, so the request is one step taken at the snapshot.
GetVideoOptions(seedQ, pageQ, limitQ, excludeQ) ==
    /\ \E sorted \in Shuffles(SnapshotDocs(excludeQ), RngSeed(ToLowerCase(seedQ))) :
          LET got == FeedResponse(seedQ, pageQ, limitQ, excludeQ, sorted) IN
          /\ resp' = got
          /\ scrolled' = Scroll(resp, got, scrolled)
    /\ UNCHANGED <<videos, reactionVars, rngTable,
                 uploadVars, viewVars, commentVars, laterVars>>

NextFeed ==
    \/ \E v \in FeedVideoIds : UploadVideo(v, 1, ValidBody) /\ UNCHANGED <<http, outerVars>>
    \/ \E seedQ \in SeedParams, pageQ \in PageParams, limitQ \in LimitParams,
          excludeQ \in ExcludeParams :
              GetVideoOptions(seedQ, pageQ, limitQ, excludeQ) /\ UNCHANGED <<http, outerVars>>

SpecFeed == InitFeed /\ [][NextFeed]_vars

\* ------------------------------------------------ feed requests in progress

\* The draws k positions further on in the stream.
Advance(st, k) == [i \in 1..MaxDraws |-> st[((i - 1 + k) % MaxDraws) + 1]]

\* (variant) one generator per seed serves every request: a request draws
\* on from where the completed ones stopped.
GeneratorShared(f) ==
    {Advance(st, Cardinality({g \in Reqs : feed[g].pc = "done"})) :
        st \in StreamsOf(RngSeed(ToLowerCase(feed[f].seed)))}

\* const rng = seedrandom(...), line 1125: a generator local to the request,
\* at the start of the stream of its seed string.
Generator(f) == StreamsOf(RngSeed(ToLowerCase(feed[f].seed)))

\* Lines 1075-1092: the request arrives and awaits query.get().
FeedSnapshot(f, seedQ) ==
    /\ feed[f].pc = "idle"
    /\ \A g \in Reqs : g < f => feed[g].pc # "idle"
    /\ feed' = [feed EXCEPT ![f] = [IdleFeed EXCEPT !.pc = "snapshot",
                        !.seed = seedQ, !.docs = SnapshotDocs(0)]]
    /\ UNCHANGED <<videos, reactionVars, feedVars, uploadVars, viewVars,
                   commentVars, del>>

\* Lines 1094-1138: the signed links and uploader details have resolved; the
\* handler builds its generator, sorts, slices and answers.
FeedRespond(f) ==
    /\ feed[f].pc = "snapshot"
    /\ \E st \in Generator(f) :
          feed' = [feed EXCEPT ![f].pc = "done",
                       ![f].videoOptions =
                           FeedResponseOf(feed[f].seed, <<>>, <<>>, 0, feed[f].docs,
                               SortWith(feed[f].docs, st)).videoOptions]
    /\ UNCHANGED <<videos, reactionVars, feedVars, uploadVars, viewVars,
                   commentVars, del>>

NextFeedConc ==
    \/ \E v \in FeedVideoIds : UploadVideo(v, 1, ValidBody) /\ UNCHANGED <<http, outerVars>>
    \/ \E f \in Reqs, seedQ \in SeedParams : FeedSnapshot(f, seedQ) /\ UNCHANGED <<http, outerVars>>
    \/ \E f \in Reqs : FeedRespond(f) /\ UNCHANGED <<http, outerVars>>

SpecFeedConc == InitFeed /\ [][NextFeedConc]_vars

\* ------------------------------------------- the feed, out-of-range arguments

\* page and limit strings of integers below, at and above zero.
ArgPageParams  == {<<n>> : n \in -2..1}
ArgLimitParams == {<<>>} \cup {<<n>> : n \in -1..1}

NextFeedArgs ==
    \/ \E v \in FeedVideoIds : UploadVideo(v, 1, ValidBody) /\ UNCHANGED <<http, outerVars>>
    \/ \E seedQ \in SeedParams, pageQ \in ArgPageParams, limitQ \in ArgLimitParams :
           GetVideoOptions(seedQ, pageQ, limitQ, 0) /\ UNCHANGED <<http, outerVars>>

SpecFeedArgs == InitFeed /\ [][NextFeedArgs]_vars

\* ====================================================================
\* Properties of the reaction toggle (checked under Spec)
\* ====================================================================

RECURSIVE Sum(_, _)
Sum(S, f) ==
    IF S = {} THEN 0
    ELSE LET x == CHOOSE y \in S : TRUE IN f[x] + Sum(S \ {x}, f)

\* The per-user records of video v that hold type t.
RecordsOfType(v, t) == {d \in reactions : d.video = v /\ d.type = t}

\* The requests that have applied their counter update to video v.
DoneOn(v) == {r \in Reqs : req[r].pc = "done" /\ req[r].video = v}

\* No toggle request is between its read and its counter update.
Quiescent == \A r \in Reqs : req[r].pc \in {"idle", "rejected", "done", "failed"}

CountersMatchRecords(v) ==
    /\ likes[v] = Cardinality(RecordsOfType(v, "like"))
    /\ dislikes[v] = Cardinality(RecordsOfType(v, "dislike"))

\* The step in which request r performs its record write.
WriteStepOf(r) == req[r].pc = "read" /\ req'[r].pc = "written"

\* The transition table of the specification, row by row:
\* <<next state, likeDelta, dislikeDelta>>.
ToggleTable(cur, t) ==
    CASE cur = Null      /\ t = "like"    -> <<"like", 1, 0>>
      [] cur = Null      /\ t = "dislike" -> <<"dislike", 0, 1>>
      [] cur = "like"    /\ t = "like"    -> <<Null, -1, 0>>
      [] cur = "like"    /\ t = "dislike" -> <<"dislike", -1, 1>>
      [] cur = "dislike" /\ t = "dislike" -> <<Null, 0, -1>>
      [] cur = "dislike" /\ t = "like"    -> <<"like", 1, -1>>

\* C1: for every current state and requested type, the record write of a
\* toggle leaves the next state of the table in the store and the handler
\* holds the table's likeDelta and dislikeDelta.
C1_TransitionTable ==
    [][\A r \in Reqs :
          WriteStepOf(r) =>
              <<CurrentReaction(req[r].video, req[r].user)',
                req'[r].likeDelta, req'[r].dislikeDelta>>
                  = ToggleTable(req[r].cur, req[r].type)]_vars

\* C1 witness: the Disliked + like row has been taken and applied.
C1_Witness ==
    \E r \in Reqs :
        /\ req[r].pc = "done" /\ req[r].cur = "dislike" /\ req[r].type = "like"
        /\ req[r].likeDelta = 1 /\ req[r].dislikeDelta = -1
        /\ CurrentReaction(req[r].video, req[r].user) = "like"

\* C2: whenever no toggle request is in progress, each video's likes and
\* dislikes counters equal the numbers of like and dislike records.
C2_CountersMatchWhenQuiescent ==
    Quiescent => \A v \in videos : CountersMatchRecords(v)

\* Requests a and b are the only ones that reached video v, they come from
\* the same user, both completed, and both read the same record state: each
\* write changes the record away from what its writer read, so the second
\* read preceded the first write.
OverlappedPair(a, b, v) ==
    /\ a # b
    /\ req[a].pc = "done" /\ req[b].pc = "done"
    /\ req[a].video = v /\ req[b].video = v
    /\ req[a].user = req[b].user
    /\ req[a].cur = req[b].cur
    /\ \A q \in Reqs \ {a, b} :
           req[q].pc \in {"idle", "rejected"} \/ req[q].video # v

\* C3: a request that has read the record can always perform its write,
\* whatever the record holds by then (no transaction, no compare-and-swap);
\* and two overlapping toggles of one user that both complete leave the
\* counters different from the record counts.
C3_OverlapDesynchronizes ==
    /\ \A r \in Reqs : req[r].pc = "read" => ENABLED WriteReaction(r)
    /\ \A a, b \in Reqs, v \in videos :
           OverlappedPair(a, b, v) => ~CountersMatchRecords(v)

\* C3 witness: two overlapping likes of one user have both completed.
C3_Witness ==
    \E a, b \in Reqs, v \in videos :
        /\ OverlappedPair(a, b, v)
        /\ req[a].cur = Null /\ req[a].type = "like" /\ req[b].type = "like"
        /\ likes[v] = 2 /\ Cardinality(RecordsOfType(v, "like")) = 1

\* C4: each (video, user) pair has at most one reaction record, and a
\* record holds exactly one of the two types.
C4_OneReactionPerPair ==
    /\ \A v \in VideoIds, u \in Users : Cardinality(ReactionDocs(v, u)) <= 1
    /\ \A d \in reactions : d.type \in ReactionTypes

\* C4 witness: a user who held one type has requested the other one.
C4_Witness ==
    \E r \in Reqs :
        /\ req[r].pc \in {"written", "done"}
        /\ req[r].cur = "like" /\ req[r].type = "dislike"
        /\ ReactionDocs(req[r].video, req[r].user) # {}

SuccessivePair(a, b, v) ==
    /\ a # b
    /\ req[a].pc = "done" /\ req[b].pc = "done"
    /\ req[a].video = v /\ req[b].video = v
    /\ req[a].user = req[b].user
    /\ req[a].type = req[b].type
    /\ req[a].cur = Null /\ req[b].cur = req[a].type
    /\ \A q \in Reqs \ {a, b} :
           \/ req[q].pc \in {"idle", "rejected"}
           \/ req[q].video # v
           \/ req[q].user # req[a].user /\ req[q].pc = "done"

\* C6: from no reaction, two successive toggles of the same type by one user
\* leave no record for the pair and both counters at the values the other
\* completed requests gave them.
C6_DoubleToggleRestores ==
    \A a, b \in Reqs, v \in videos :
        SuccessivePair(a, b, v) =>
            /\ ReactionDocs(v, req[a].user) = {}
            /\ likes[v] = Sum(DoneOn(v) \ {a, b}, [q \in Reqs |-> req[q].likeDelta])
            /\ dislikes[v] = Sum(DoneOn(v) \ {a, b}, [q \in Reqs |-> req[q].dislikeDelta])

\* C6 witness: like then like, both completed.
C6_Witness ==
    \E a, b \in Reqs, v \in videos :
        SuccessivePair(a, b, v) /\ req[a].type = "like" /\ req[b].likeDelta = -1

\* C7: both counters of a video always reflect exactly the toggles that have
\* applied their update, and every delta is -1, 0 or 1.
C7_AtomicCounterUpdate ==
    /\ \A v \in videos :
           /\ likes[v] = Sum(DoneOn(v), [q \in Reqs |-> req[q].likeDelta])
           /\ dislikes[v] = Sum(DoneOn(v), [q \in Reqs |-> req[q].dislikeDelta])
    /\ \A r \in Reqs :
           req[r].likeDelta \in {-1, 0, 1} /\ req[r].dislikeDelta \in {-1, 0, 1}

\* C7 witness: a switch from like to dislike has moved both counters at once.
C7_Witness ==
    \E r \in Reqs :
        /\ req[r].pc = "done" /\ req[r].likeDelta = -1 /\ req[r].dislikeDelta = 1
        /\ likes[req[r].video] = 0 /\ dislikes[req[r].video] = 1

\* C8: a request whose type is neither like nor dislike is answered 400
\* without reading the reaction record, changes no record and no counter,
\* and does nothing afterwards.
C8_InvalidTypeRejected ==
    [][\A r \in Reqs :
          /\ (req[r].pc = "idle" /\ req'[r].pc # "idle"
                 /\ req'[r].type \notin ReactionTypes) =>
                /\ req'[r].pc = "rejected" /\ req'[r].status = 400
                /\ req'[r].cur = "unread"
                /\ UNCHANGED <<reactions, likes, dislikes>>
          /\ req[r].pc = "rejected" => req'[r] = req[r]]_vars

\* C8 witness: an invalid request was rejected while a record exists.
C8_Witness ==
    \E r \in Reqs :
        /\ req[r].pc = "rejected" /\ req[r].status = 400 /\ req[r].type = "love"
        /\ reactions # {}

\* ====================================================================
\* Properties of the feed (checked under SpecFeed)
\* ====================================================================

\* Sequence a lists every element of sequence b exactly once.
IsPermutationOf(a, b) ==
    /\ Len(a) = Len(b)
    /\ \A i \in 1..Len(b) :
           Cardinality({j \in 1..Len(a) : a[j] = b[i]}) = 1

\* C9: a request that repeats the seed, page and limit (and excludeId) of
\* the previous one, with a non-empty seed and over the same candidates,
\* returns the same videos in the same order and the same hasMore.
C9_SeededFeedDeterministic ==
    [][(/\ resp.status = 200 /\ resp'.status = 200
        /\ resp.seed # ""
        /\ resp'.seed = resp.seed /\ resp'.page = resp.page
        /\ resp'.limit = resp.limit /\ resp'.excludeId = resp.excludeId
        /\ resp'.docs = resp.docs)
       => /\ resp'.videoOptions = resp.videoOptions
          /\ resp'.hasMore = resp.hasMore]_vars

\* C9 witness: a seeded request over two candidates returned them in an
\* order other than the listing order.
C9_Witness ==
    /\ resp.status = 200 /\ resp.seed = "A" /\ resp.rngSeed = "a"
    /\ resp.docs = <<1, 2>> /\ resp.videoOptions = <<2, 1>>

\* C10: with a non-empty seed, the pages 1, 2, ... concatenated up to the
\* first one whose hasMore is false list every candidate exactly once.
C10_ScrollCoversCandidates ==
    (/\ scrolled.valid /\ resp.status = 200
     /\ resp.seed # "" /\ ~resp.hasMore)
        => IsPermutationOf(scrolled.items, resp.docs)

\* C10 witness: a two-page scroll of one video per page has ended.
C10_Witness ==
    /\ scrolled.valid /\ resp.status = 200 /\ resp.seed = "a" /\ ~resp.hasMore
    /\ resp.page = <<2>> /\ resp.limit = <<1>>
    /\ scrolled.items = <<2, 1>>

Min(a, b) == IF a < b THEN a ELSE b
Max(a, b) == IF a > b THEN a ELSE b

\* C11: for N candidates, page p >= 1 and limit n > 0 the response holds the
\* items at positions [(p-1)*n, p*n) of a shuffle of the candidates, that is
\* min(n, max(0, N-(p-1)*n)) items, and hasMore is true exactly when p*n < N;
\* no candidates give an empty page with hasMore false.
C11_PageSliceAndHasMore ==
    (/\ resp.status = 200 /\ resp.page # <<>> /\ resp.limit # <<>>
     /\ resp.page[1] >= 1 /\ resp.limit[1] > 0)
        => LET p == resp.page[1]
               n == resp.limit[1]
               N == Len(resp.docs)
           IN /\ \E sh \in Shuffles(resp.docs, resp.rngSeed) :
                     resp.videoOptions = SubSeq(sh, (p - 1) * n + 1, Min(p * n, N))
              /\ Len(resp.videoOptions) = Min(n, Max(0, N - (p - 1) * n))
              /\ resp.hasMore <=> p * n < N
              /\ N = 0 => resp.videoOptions = <<>> /\ ~resp.hasMore

\* C11 witness: page 1 of size 1 over two candidates: one item, more to come.
C11_Witness ==
    /\ resp.status = 200 /\ resp.page = <<1>> /\ resp.limit = <<1>>
    /\ Len(resp.docs) = 2 /\ Len(resp.videoOptions) = 1 /\ resp.hasMore

Range(a) == {a[i] : i \in 1..Len(a)}

\* C14: a request with an excludeId is answered from the stored videos
\* other than that one: the excluded video is not on the page, whatever the
\* seed, page and limit, and hasMore compares with their number.
C14_ExcludedBeforeShuffle ==
    [][(resp' # resp /\ resp'.excludeId # 0) =>
          LET candidates == videos \ {resp'.excludeId}
              page == ParseIntOr(resp'.page, DefaultPage)
              limit == ParseIntOr(resp'.limit, DefaultLimit)
          IN /\ Range(resp'.videoOptions) \subseteq candidates
             /\ resp'.hasMore <=> page * limit < Cardinality(candidates)]_vars

\* C14 witness: with videos 1 and 2 stored and 1 excluded, page 1 of size 1
\* holds video 2 and nothing follows it.
C14_Witness ==
    /\ resp.status = 200 /\ resp.excludeId = 1 /\ videos = {1, 2}
    /\ resp.page = <<1>> /\ resp.limit = <<1>>
    /\ resp.videoOptions = <<2>> /\ ~resp.hasMore

\* C15: a request whose seed is absent or empty seeds its generator with
\* the time of the request, not with the empty string; once such a request
\* has been answered two videos or more, the same request made again over
\* the same candidates can be answered a different page, so two of them need
\* not return the same ordering.
C15_EmptySeedUsesClock ==
    /\ (resp.status = 200 /\ ToLowerCase(resp.seed) = "") =>
           resp.rngSeed = NowSeed /\ resp.rngSeed # ""
    /\ (/\ resp.status = 200 /\ ToLowerCase(resp.seed) = ""
        /\ SnapshotDocs(resp.excludeId) = resp.docs
        /\ Len(resp.videoOptions) >= 2)
           => ENABLED (/\ GetVideoOptions(resp.seed, resp.page, resp.limit,
                                          resp.excludeId)
                       /\ resp'.videoOptions # resp.videoOptions)

\* C15 witness: a request without seed over two videos, both still stored,
\* was answered them in the order opposite to the listing.
C15_Witness ==
    /\ resp.status = 200 /\ resp.seed = "" /\ resp.rngSeed = NowSeed
    /\ resp.excludeId = 0 /\ SnapshotDocs(0) = resp.docs
    /\ resp.docs = <<1, 2>> /\ resp.videoOptions = <<2, 1>>

\* ====================================================================
\* Properties of the feed's arguments (checked under SpecFeedArgs)
\* ====================================================================

\* The response repeats what the same request with page pageQ and limit
\* limitQ is answered over the same candidates.
AnsweredAs(pageQ, limitQ) ==
    \E sh \in Shuffles(resp.docs, resp.rngSeed) :
        LET other == FeedResponse(resp.seed, pageQ, limitQ, resp.excludeId, sh)
        IN /\ resp.videoOptions = other.videoOptions
           /\ resp.hasMore = other.hasMore

\* C12: a request whose page is an integer below 1 is answered as the same
\* request with page 1, and one whose limit is an integer not above 0 as the
\* same request with limit 10.
C12_OutOfRangeNormalized ==
    (resp.status = 200 /\ resp.docs = SnapshotDocs(resp.excludeId)) =>
        /\ (resp.page # <<>> /\ resp.page[1] < 1) => AnsweredAs(<<1>>, resp.limit)
        /\ (resp.limit # <<>> /\ resp.limit[1] <= 0) => AnsweredAs(resp.page, <<10>>)

\* ====================================================================
\* Properties of overlapping feed requests (checked under SpecFeedConc)
\* ====================================================================

\* The orderings a request with that seed returns over those candidates
\* when no other request is made.
AloneOrderings(seedQ, docs) ==
    {FeedResponseOf(seedQ, <<>>, <<>>, 0, docs, sh).videoOptions :
        sh \in Shuffles(docs, RngSeed(ToLowerCase(seedQ)))}

\* C13: whatever other feed requests are in progress or completed, a
\* request returns an ordering it returns when run alone with its seed over
\* its candidates, and requests with the same non-empty seed over the same
\* candidates return the same ordering.
C13_RequestsDoNotShareGenerator ==
    /\ \A f \in Reqs :
           feed[f].pc = "done" =>
               feed[f].videoOptions \in AloneOrderings(feed[f].seed, feed[f].docs)
    /\ \A f, g \in Reqs :
           (/\ feed[f].pc = "done" /\ feed[g].pc = "done"
            /\ feed[f].seed # ""
            /\ ToLowerCase(feed[f].seed) = ToLowerCase(feed[g].seed)
            /\ feed[f].docs = feed[g].docs)
               => feed[f].videoOptions = feed[g].videoOptions

\* C13 witness: a seeded request over two videos was answered a reordering
\* while an earlier request with another seed was still in progress.
C13_Witness ==
    \E f, g \in Reqs :
        /\ f < g /\ feed[f].pc = "snapshot" /\ feed[g].pc = "done"
        /\ feed[f].seed = "" /\ feed[g].seed = "a"
        /\ feed[g].docs = <<1, 2>> /\ feed[g].videoOptions = <<2, 1>>

\* ====================================================================
\* Properties of uploadVideo (checked under SpecUpload)
\* ====================================================================

\* C17: an upload request without title or videoType, or with a videoType
\* or thumbnailType outside the allowed lists, is answered 400, adds no
\* video document and is given no signed upload URL.
C17_InvalidUploadCreatesNothing ==
    (/\ upload.status # 0
     /\ \/ upload.title = "" \/ upload.videoType = ""
        \/ upload.videoType \notin AllowedVideoTypes
        \/ upload.thumbnailType # "" /\ upload.thumbnailType \notin AllowedThumbnailTypes)
        => upload.status = 400 /\ upload.videoId = 0 /\ upload.signedUrls = {}

\* ====================================================================
\* Properties of incrementViewCount (checked under SpecViews)
\* ====================================================================

\* The view requests on video v that were answered 204.
ViewedOk(v) == {r \in ViewReqs : vreq[r].pc = "done" /\ vreq[r].video = v}

\* C19: the views counter of a video, 0 when it is uploaded, equals the
\* number of view requests on it answered 204, overlapping or not, and each
\* of them raised it by exactly 1.
C19_ViewsCountSuccessfulRequests ==
    [][/\ \A v \in videos' : views'[v] = Cardinality(ViewedOk(v)')
       /\ \A r \in ViewReqs :
              (vreq[r].pc = "pending" /\ vreq'[r].pc = "done") =>
                  /\ vreq'[r].status = 204
                  /\ views'[vreq[r].video] = views[vreq[r].video] + 1]_vars

\* C19 witness: two view requests on one video were answered while an
\* earlier one on it was still pending, and the counter is 2.
C19_Witness ==
    \E a, b, c \in ViewReqs :
        /\ a < b /\ b < c
        /\ vreq[a].pc = "pending" /\ vreq[b].pc = "done" /\ vreq[c].pc = "done"
        /\ vreq[a].video = vreq[b].video /\ vreq[b].video = vreq[c].video
        /\ views[vreq[a].video] = 2

\* ====================================================================
\* Properties of getComments (checked under SpecComments)
\* ====================================================================

\* The comments of the requested video a page may hold: all of them, or,
\* the request having found its lastCommentId, those after that comment.
Eligible(r) ==
    {c \in CommentsOf(r.video) : r.cursor = <<>> \/ Precedes(r.cursor[1], c)}

\* C20: the answer of getComments holds at most 10 comments of the video
\* in descending timestamp order; when lastCommentId named a comment of the
\* video they are the first ones strictly after it, otherwise the first ones
\* of all; and hasMore is true exactly when a further comment follows them.
C20_CommentPage ==
    [][/\ (cresp.pc # "query" /\ cresp'.pc = "query") =>
          LET named == {c \in CommentsOf(cresp'.video) : c.id = cresp'.lastCommentId}
          IN IF named = {} THEN cresp'.cursor = <<>>
             ELSE cresp'.cursor # <<>> /\ cresp'.cursor[1] \in named
       /\ (cresp.pc = "query" /\ cresp'.pc = "done") =>
          LET page == cresp'.comments
              rest == Eligible(cresp') \ Range(page)
          IN /\ cresp'.status = 200
             /\ Len(page) <= 10
             /\ Cardinality(Range(page)) = Len(page)
             /\ Range(page) \subseteq Eligible(cresp')
             /\ \A i, j \in 1..Len(page) :
                    i < j => page[i].timestamp >= page[j].timestamp
             /\ \A c \in rest : Len(page) = 10 /\ Precedes(page[10], c)
             /\ cresp'.hasMore <=> rest # {}]_vars

\* C20 witness: eleven comments follow the cursor comment: ten are returned
\* and hasMore is true.
C20_Witness ==
    /\ cresp.pc = "done" /\ cresp.cursor # <<>> /\ cresp.hasMore
    /\ Len(cresp.comments) = 10
    /\ Cardinality(Eligible(cresp)) = 11

\* ====================================================================
\* Properties of deleteVideo (checked under SpecDelete)
\* ====================================================================

\* C18: when deleteVideo answers 204, the video document, the comments of
\* the video and its reaction records do not exist, whatever posts and
\* toggles ran during the delete; and the video document is deleted only
\* after the comments and reactions the handler listed.
C18_DeleteLeavesNothing ==
    [][/\ (del.pc # "done" /\ del'.pc = "done" /\ del'.status = 204) =>
              /\ del.video \notin videos'
              /\ CommentsOf(del.video)' = {}
              /\ ReactionsOf(del.video)' = {}
       /\ (del.video \in videos /\ del.video \notin videos') =>
              del.pc = "reactionsDeleted"]_vars

\* ====================================================================
\* Properties of the router (checked under SpecRoute)
\* ====================================================================

\* The header carries no token that verifies.
Unauthenticated(h) == h = <<>> \/ h[1] # "Bearer" \/ h[2] \notin Users

\* C16: every route has authenticateUser in front of its handler; a request
\* whose Authorization header is absent, does not begin with "Bearer " or
\* carries a token that fails verification is answered 401, its handler is
\* not invoked, and it changes no video, comment, reaction or counter and
\* starts no request of a handler.
C16_EveryRouteAuthenticated ==
    [][/\ \A i \in DOMAIN Routes :
              Routes[i].stack # <<>> /\ Head(Routes[i].stack) = "authenticateUser"
       /\ (http' # http /\ Unauthenticated(http'.authorization)) =>
              /\ http'.status = 401 /\ http'.handler = ""
              /\ UNCHANGED <<videos, likes, dislikes, views, uploader, comments,
                             reactions, req, vreq, del, upload>>]_vars

\* C16 witness: with a video and a comment stored and a view request
\* pending, a request on the view route with a token that fails
\* verification was answered 401.
C16_Witness ==
    /\ http.status = 401 /\ http.handler = ""
    /\ http.authorization = <<"Bearer", 0>>
    /\ Routes[http.route].handler = "incrementViewCount"
    /\ videos # {} /\ comments # {} /\ vreq[1].pc = "pending"

\* ====================================================================
\* Properties of the error middleware (checked under SpecError)
\* ====================================================================

\* C21: the router is mounted before errorLogger and errorLogger before
\* errorHandler; an error a handler gives to next() goes to errorLogger,
\* which answers nothing and passes the same error on to errorHandler, which
\* calls res.status with the status property of the error when it is an
\* Error that has one and with 500 otherwise; that is the answer of a
\* request not answered before.
C21_ErrorsReachLoggerThenHandler ==
    [][/\ 0 < LayerIndex(proc.stack, "videoRouter")
       /\ LayerIndex(proc.stack, "videoRouter") < LayerIndex(proc.stack, "errorLogger")
       /\ LayerIndex(proc.stack, "errorLogger") < LayerIndex(proc.stack, "errorHandler")
       /\ (reply.pc \in {"idle", "done"} /\ reply' # reply /\ reply'.error # <<>>) =>
              reply'.pc = "errorLogger" /\ ~reply'.logged
       /\ (reply.pc = "errorLogger" /\ reply' # reply) =>
              /\ reply'.logged /\ reply'.pc = "errorHandler"
              /\ reply'.error = reply.error /\ reply'.calls = reply.calls
       /\ (reply.pc = "errorHandler" /\ reply' # reply) =>
              LET e == reply.error[1]
                  status == IF e.isError /\ e.status # <<>> THEN e.status[1] ELSE 500
              IN /\ reply.logged
                 /\ reply'.calls =
                        Append(reply.calls, [by |-> "errorHandler", status |-> status])
                 /\ reply.calls = <<>> =>
                        reply'.pc = "done" /\ reply'.calls[1].status = status]_vars

\* C21 witness: generateThumbnail forwarded an Error with status 404 without
\* having answered; it was logged and the request was answered 404.
C21_Witness ==
    /\ reply.pc = "done" /\ reply.handler = "generateThumbnail" /\ reply.logged
    /\ reply.error = <<[isError |-> TRUE, status |-> <<404>>]>>
    /\ reply.calls = <<[by |-> "errorHandler", status |-> 404]>>

\* C25: for every request at most one call answers it, from the handler or
\* from the error middleware, and a handler that has answered 400 begins no
\* database or storage operation afterwards.
C25_AtMostOneResponse ==
    /\ Len(reply.calls) <= 1
    /\ (reply.calls # <<>> /\ reply.calls[1].status = 400) => reply.ops = {}

\* ====================================================================
\* Properties of the start-up (checked under SpecBoot)
\* ====================================================================

\* C22: however many calls of initializeFirebase are made, one after the
\* other or overlapping while they await the secrets, admin.initializeApp
\* runs at most once: at most one app exists and at most one call
\* initialized it.
C22_InitializedAtMostOnce ==
    /\ apps <= 1
    /\ Cardinality({k \in InitCalls : inits[k].outcome = "initialized"}) = apps

\* C22 witness: a call made while no app existed found, when its secrets
\* arrived, the app another call had initialized meanwhile.
C22_Witness ==
    \E a, b \in InitCalls :
        /\ a # b /\ apps = 1
        /\ inits[a].outcome = "initialized"
        /\ inits[b].outcome = "already" /\ inits[b].appsAtCall = 0

\* C28: the process begins to listen only from the state in which
\* startServer has resolved, and whenever it has resolved or listens,
\* startServer's initializeFirebase has returned, the app exists and the
\* router, errorLogger and errorHandler are mounted; when that call throws,
\* the only step of the process is its exit with code 1, after which it does
\* nothing.
C28_ListensAfterStartServer ==
    [][/\ (proc.pc # "listening" /\ proc'.pc = "listening") => proc.pc = "started"
       /\ proc.pc \in {"started", "listening"} =>
              /\ inits[1].pc = "done" /\ apps = 1
              /\ proc.stack = BaseStack \o <<"videoRouter", "errorLogger", "errorHandler">>
       /\ (inits[1].pc = "failed" /\ proc' # proc) =>
              proc'.pc = "exited" /\ proc'.exitCode = 1
       /\ proc.pc = "exited" => UNCHANGED vars]_vars

\* C28 witness: the process listens although a later call of
\* initializeFirebase has failed.
C28_Witness ==
    /\ proc.pc = "listening" /\ inits[1].outcome = "initialized"
    /\ \E k \in InitCalls : inits[k].pc = "failed"

\* ====================================================================
\* Properties of toggles that do not overlap on a pair, and of failed ones
\* ====================================================================

\* C23 (under SpecSerial, where a (video, user) pair never has two toggles
\* in progress): whenever no toggle is in progress, the likes and dislikes
\* counters of every video equal the numbers of its like and dislike
\* records and are not negative.
C23_SerialPairsKeepCounters ==
    Quiescent =>
        \A v \in videos :
            /\ CountersMatchRecords(v)
            /\ likes[v] >= 0 /\ dislikes[v] >= 0

\* C23 witness: a like and a dislike of two users on one video have both
\* completed.
C23_Witness ==
    /\ Quiescent
    /\ \E a, b \in Reqs, v \in videos :
           /\ req[a].pc = "done" /\ req[b].pc = "done"
           /\ req[a].video = v /\ req[b].video = v
           /\ req[a].user # req[b].user
           /\ likes[v] = 1 /\ dislikes[v] = 1
           /\ Cardinality(ReactionsOf(v)) = 2

\* C24 (under Spec): when a toggle has ended in an error and no other
\* request concerns its (video, user) pair, the pair's reaction record is
\* what the request read and the counters of its video are as they were.
C24_FailedToggleChangesNothing ==
    \A r \in Reqs :
        (/\ req[r].pc = "failed"
         /\ \A q \in Reqs \ {r} :
                req[q].pc = "idle" \/ req[q].video # req[r].video
                                  \/ req[q].user # req[r].user)
        => /\ CurrentReaction(req[r].video, req[r].user) = req[r].cur
           /\ likes[req[r].video] = 0 /\ dislikes[req[r].video] = 0

\* ====================================================================
\* Refusals of deleteVideo (checked under SpecDelete)
\* ====================================================================

\* C26: a deleteVideo request for a video that does not exist is answered
\* 404 and one of a user who is not the video's uploader is answered 403;
\* the step that answers so leaves the videos, comments and reaction records
\* as they are, and a request answered so takes no further step, so that it
\* deletes nothing.
C26_RefusedDeleteDeletesNothing ==
    [][/\ (del.pc = "idle" /\ del'.pc # "idle") =>
              /\ del'.video \notin videos => del'.status = 404
              /\ (del'.video \in videos /\ uploader[del'.video] # del'.user)
                     => del'.status = 403
              /\ del'.status \in {403, 404} =>
                     UNCHANGED <<videos, comments, reactions, likes, dislikes,
                                 views, uploader>>
       /\ del.status \in {403, 404} =>
              /\ del' = del
              /\ videos \subseteq videos' /\ comments \subseteq comments'
              /\ \A d \in reactions :
                     d \in reactions' \/ (req[1].video = d.video /\ req[1].user = d.id)]_vars

\* C26 witness: a user other than the uploader was answered 403 for a video
\* that still has its document, a comment and a reaction record.
C26_Witness ==
    /\ del.status = 403 /\ del.video \in videos
    /\ uploader[del.video] # del.user
    /\ CommentsOf(del.video) # {} /\ ReactionsOf(del.video) # {}

\* ====================================================================
\* Route matching (checked under SpecMatch)
\* ====================================================================

\* C27: a request is handled by the first declared route whose method and
\* path match it. GET /search is handled by searchVideoOptions and
\* GET /user/<id> by getUserVideoOptions, not by getVideoDetails;
\* POST /<id>/view is handled by incrementViewCount, not by
\* incrementLikeDislikeCount.
C27_FirstMatchingRoute ==
    url.method # "" =>
        /\ http.route # 0 =>
               /\ Routes[http.route].method = url.method
               /\ MatchPath(PatternSegments(Routes[http.route].path), url.path)
               /\ \A j \in 1..(http.route - 1) :
                      ~(/\ Routes[j].method = url.method
                        /\ MatchPath(PatternSegments(Routes[j].path), url.path))
               /\ http.status = 0 => http.handler = Routes[http.route].handler
        /\ (url.method = "GET" /\ url.path = <<"search">>) =>
               /\ http.route # 0
               /\ Routes[http.route].handler = "searchVideoOptions"
        /\ (url.method = "GET" /\ Len(url.path) = 2 /\ url.path[1] = "user") =>
               /\ http.route # 0
               /\ Routes[http.route].handler = "getUserVideoOptions"
        /\ (url.method = "POST" /\ Len(url.path) = 2 /\ url.path[2] = "view") =>
               /\ http.route # 0
               /\ Routes[http.route].handler = "incrementViewCount"

\* C27 witness: POST /v/view of an authenticated user has reached
\* incrementViewCount, whose update is pending.
C27_Witness ==
    /\ url = [method |-> "POST", path |-> <<"v", "view">>]
    /\ http.handler = "incrementViewCount" /\ http.status = 0
    /\ vreq[1].pc = "pending"

\* ====================================================================
\* Frames of the counter updates (checked under SpecCounters)
\* ====================================================================

\* C29: a step of an incrementViewCount request changes nothing in the
\* store but the views field of its video; a step of a toggle changes
\* nothing but the likes and dislikes fields of its video and the reaction
\* record of its user on that video.
C29_CounterFrames ==
    [][/\ \A r \in ViewReqs :
              vreq'[r] # vreq[r] =>
                  /\ UNCHANGED <<videos, likes, dislikes, reactions, uploader, comments>>
                  /\ \A w \in DOMAIN views :
                         w # vreq'[r].video => views'[w] = views[w]
       /\ \A r \in Reqs :
              req'[r] # req[r] =>
                  /\ UNCHANGED <<videos, views, uploader, comments>>
                  /\ \A w \in DOMAIN likes :
                         w # req'[r].video =>
                             likes'[w] = likes[w] /\ dislikes'[w] = dislikes[w]
                  /\ \A d \in reactions \cup reactions' :
                         (d.video # req'[r].video \/ d.id # req'[r].user) =>
                             (d \in reactions <=> d \in reactions')]_vars

\* C29 witness: a video has been viewed once and holds the like of one user
\* and the dislike of another, beside a second video that has none of these.
C29_Witness ==
    \E v, w \in videos :
        /\ v # w
        /\ vreq[1].pc = "done" /\ vreq[1].video = v
        /\ views[v] = 1 /\ likes[v] = 1 /\ dislikes[v] = 1
        /\ views[w] = 0 /\ likes[w] = 0 /\ dislikes[w] = 0

\* ====================================================================
\* Following the comment cursor (checked under SpecScroll)
\* ====================================================================

\* C30: when a client that followed the cursor from the first page has
\* received a page with hasMore false, and no comment was added or deleted
\* since it asked for the first page, the comments it received are the
\* comments of the video, each of them once. A request whose lastCommentId
\* names no comment of the video is answered 200 with the first page of the
\* comments as they are.
C30_CursorCoversAllOnce ==
    [][/\ (cscroll'.valid /\ cresp'.pc = "done" /\ ~cresp'.hasMore) =>
              /\ {cscroll'.items[i] : i \in 1..Len(cscroll'.items)} = cscroll'.base
              /\ Len(cscroll'.items) = Cardinality(cscroll'.base)
              /\ cscroll'.base = {c \in comments' : c.video = cscroll'.video}
       /\ (cresp.pc # "query" /\ cresp'.pc = "query"
              /\ \A c \in CommentsOf(cresp'.video) : c.id # cresp'.lastCommentId)
                 => cresp'.cursor = <<>>
       /\ (cresp.pc = "query" /\ cresp'.pc = "done" /\ cresp.cursor = <<>>) =>
              /\ cresp'.status = 200
              /\ cresp'.comments =
                     Slice(Ordered(CommentsOf(cresp.video)), 0, CommentsPageSize)]_vars

\* C30 witness: a scroll over unchanged comments took two requests, the
\* second page beginning with a comment whose timestamp equals that of the
\* last comment of the first, and every comment was received.
C30_Witness ==
    /\ cscroll.valid /\ cresp.pc = "done" /\ ~cresp.hasMore
    /\ cresp.lastCommentId # 0
    /\ Len(cscroll.items) = MaxComments
    /\ cscroll.items[CommentsPageSize].timestamp
           = cscroll.items[CommentsPageSize + 1].timestamp

====
